---- MODULE Spec2Model ----
(***************************************************************************)
(* History-retention subsystem of All-seeing-bot: the in-memory LRU        *)
(* MessageCache, the MessagesDB table (Durable Store), the Google Sheets   *)
(* log (Cold Archive), the StorageManager backup runs and the business     *)
(* message handlers (created / edited / deleted).                          *)
(***************************************************************************)
EXTENDS Integers, Sequences, FiniteSets, TLC

\* ------------------------------------------------------------------ bounds
\* message ids of the one (owner, chat) the handler model follows
NumKeys == 2
\* capacity of the MessageCache of the model (MessageCache(max_size))
max_size == 2

\* Python's None where a string is expected, and where a dict is expected
None == "None"
NoRec == [none |-> TRUE]

Keys == 1..NumKeys
\* keys used against the cache alone: one more than fits
LruKeys == 1..(max_size + 1)

\* ------------------------------------------------------------- sequences
RECURSIVE SeqRemove(_, _)
\* s without the entries of key k
SeqRemove(s, k) ==
    IF s = <<>> THEN <<>>
    ELSE IF Head(s).k = k THEN SeqRemove(Tail(s), k)
         ELSE <<Head(s)>> \o SeqRemove(Tail(s), k)

RECURSIVE KeyRemove(_, _)
\* a sequence of keys without key k
KeyRemove(s, k) ==
    IF s = <<>> THEN <<>>
    ELSE IF Head(s) = k THEN KeyRemove(Tail(s), k)
         ELSE <<Head(s)>> \o KeyRemove(Tail(s), k)

Range(s) == {s[i] : i \in 1..Len(s)}

\* the last n elements of s (all of s when it is shorter)
LastN(s, n) ==
    IF Len(s) <= n THEN s ELSE SubSeq(s, Len(s) - n + 1, Len(s))

Min(a, b) == IF a <= b THEN a ELSE b

RECURSIVE SeqRemoveAll(_, _)
\* s without the elements at the positions of P
SeqRemoveAll(s, P) ==
    IF s = <<>> THEN <<>>
    ELSE LET rest == SeqRemoveAll(SubSeq(s, 1, Len(s) - 1), P)
         IN  IF Len(s) \in P THEN rest ELSE Append(rest, s[Len(s)])

\* ---------------------------------------------------------- MessageCache
\* The OrderedDict: a sequence of entries [k, d], least recently used first.
CacheKeySet(c) == {c[i].k : i \in 1..Len(c)}
CacheHas(c, k) == k \in CacheKeySet(c)
CacheVal(c, k) == (CHOOSE i \in 1..Len(c) : c[i].k = k)
CacheData(c, k) == c[CacheVal(c, k)].d

RECURSIVE Popitems(_)
\* while len(self._cache) > self._max_size: self._cache.popitem(last=False)
Popitems(c) == IF Len(c) > max_size THEN Popitems(Tail(c)) ELSE c

\* MessageCache.set
CacheSet(c, k, d) == Popitems(Append(SeqRemove(c, k), [k |-> k, d |-> d]))

\* a get that leaves the recency order alone (FIFO instead of LRU)
CacheGet_NoTouch(c, k) == c

\* MessageCache.get: the cache after the lookup (the key moved to the end)
CacheGet(c, k) ==
    IF CacheHas(c, k)
    THEN Append(SeqRemove(c, k), [k |-> k, d |-> CacheData(c, k)])
    ELSE c

\* MessageCache.get: the value returned (a copy of the entry, or None)
CacheLookup(c, k) == IF CacheHas(c, k) THEN CacheData(c, k) ELSE NoRec

\* a get that hands out the stored dict itself:  return self._cache[key]
GetReturn_NoCopy(c, k) ==
    [shared |-> CacheHas(c, k), d |-> CacheLookup(c, k)]

\* MessageCache.get: the object returned; shared says whether it is the dict
\* the cache holds (self._cache[key]) or another dict with the same items
\* (self._cache[key].copy())
GetReturn(c, k) == [shared |-> FALSE, d |-> CacheLookup(c, k)]

\* the dict stored under k after its items were changed in place to d
CacheInPlace(c, k, d) ==
    [i \in 1..Len(c) |-> IF c[i].k = k THEN [k |-> k, d |-> d] ELSE c[i]]

\* MessageCache.delete
CacheDelete(c, k) == SeqRemove(c, k)

\* MessageCache.update: dict.update(kwargs) on a resident entry, moved to the
\* end; nothing on an absent key
Merge(d, f) ==
    [x \in DOMAIN d \cup DOMAIN f |-> IF x \in DOMAIN f THEN f[x] ELSE d[x]]

\* an update that stores the fields as a new entry when the key is absent
CacheUpdate_Upsert(c, k, f) ==
    IF CacheHas(c, k)
    THEN Append(SeqRemove(c, k), [k |-> k, d |-> Merge(CacheData(c, k), f)])
    ELSE Popitems(Append(c, [k |-> k, d |-> f]))

\* if key in self._cache: self._cache[key].update(kwargs); move_to_end(key)
CacheUpdate(c, k, f) ==
    IF CacheHas(c, k)
    THEN Append(SeqRemove(c, k), [k |-> k, d |-> Merge(CacheData(c, k), f)])
    ELSE c

\* the records of the cache without their recency order
CacheMap(c) == {<<c[i].k, c[i].d>> : i \in 1..Len(c)}

\* -------------------------------------------------------- message content
\* result["extra_data"] of get_content_type: the members of meta as
\* <<name, value>> pairs (json.dumps(meta)); the empty set is None (no meta)
NoMeta == {}
FileMeta(f) == {<<"file_id", f>>}

\* extract_file_id: None for an empty value, the "file_id" member otherwise
extract_file_id(extra_data) ==
    IF extra_data = NoMeta THEN None
    ELSE IF \E m \in extra_data : m[1] = "file_id"
    THEN (CHOOSE m \in extra_data : m[1] = "file_id")[2]
    ELSE None

\* get_content_type of a text message and of a photo with an optional caption
TextContent(t) == [content_type |-> "text", text |-> t, extra_data |-> NoMeta]
PhotoContent(cap, f) == [content_type |-> "photo", text |-> cap, extra_data |-> FileMeta(f)]

\* what the platform delivers in the handler model
Contents ==
    {TextContent("a"), PhotoContent(None, "f1")}

\* what the platform delivers where the rendering of an edit is examined:
\* two texts, and photos with and without a caption and with either file
EditContents ==
    {TextContent("a"), TextContent("b"), PhotoContent(None, "f1"),
     PhotoContent("a", "f1"), PhotoContent("a", "f2")}

\* msg_data of handle_business_message; out is
\* message.from_user.id != message.chat.id
MsgData(out, c) ==
    [content_type |-> c.content_type,
     message_text |-> c.text,
     extra_data   |-> c.extra_data,
     is_outgoing  |-> out]

\* the display placeholder:  x or "[pusto]"
EMPTY == "[pusto]"
OrEmpty(t) == IF t = None THEN EMPTY ELSE t

\* ---------------------------------------------------------- MessagesDB
\* The messages table: the rows of each key, in insertion order.
StoreInsert(s, k, d) == [s EXCEPT ![k] = Append(@, d)]

\* MessagesDB.get: response.data[0] if response.data else None
StoreGet(s, k) == IF s[k] = <<>> THEN NoRec ELSE Head(s[k])

\* an update that inserts the row when no row matches
StoreUpdate_Upsert(s, k, f) ==
    IF s[k] = <<>>
    THEN [s EXCEPT ![k] = <<f>>]
    ELSE [s EXCEPT ![k] = [i \in DOMAIN @ |-> Merge(@[i], f)]]

\* MessagesDB.update: update(kwargs).eq(key): the matching rows, none if absent
StoreUpdate(s, k, f) == [s EXCEPT ![k] = [i \in DOMAIN @ |-> Merge(@[i], f)]]

\* MessagesDB.delete: delete().eq(key)
StoreDelete(s, k) == [s EXCEPT ![k] = <<>>]

Live(s, k) == s[k] # <<>>

\* ------------------------------------------------------------------ state
VARIABLES
    cache,            \* message_cache._cache
    touched,          \* history: keys set and not since deleted, last touch order
    everDeleted,      \* history: a cache delete has been called
    held,             \* the object a caller got from its last message_cache.get
    lastCall,         \* history: the last call of a method of message_cache
    sheets,           \* the spreadsheet of GoogleLogger and its current sheet
    store,            \* the messages table of MessagesDB: key -> rows
    pending,          \* asyncio.create_task(asyncio.to_thread(MessagesDB...)) not yet run
    archive,          \* rows appended to the Google Sheets log
    google_available, \* StorageManager.google_available
    notify_on_edit,   \* the owner's notify_on_edit setting
    chat,             \* the platform's chat, per message id: "unsent", sent by
                      \* the client ("in") or by the owner ("out"), or "deleted"
    events,           \* number of events the platform has delivered
    eh,               \* the running handle_edited_business_message
    dh,               \* the running handle_deleted_business_messages
    gone,             \* history: per key, what landed in the table since its delete
    delLog,           \* history: table deletes of the deletion flow that removed a row
    buffer,           \* len(StorageManager.buffer)
    now,              \* the clock (datetime.now), in ticks
    next_backup_time, \* StorageManager.next_backup_time
    audit,            \* the backups table of BackupsDB, oldest first
    loop,             \* StorageManager._backup_loop: "sleep" or "run"
    runs,             \* the calls of run_backup in progress, per caller
    last,             \* history: the run_backup call that returned last
    nruns,            \* history: calls of run_backup so far
    calm              \* history: no event, table write or other run since the
                      \* start of the run that started last

\* the variables only the specifications of the cache alone and of the log
\* alone change
lruVars == <<touched, everDeleted, held, lastCall, sheets>>
backupVars == <<now, next_backup_time, audit, loop, runs, last, nruns>>
handlerVars ==
    <<store, pending, archive, google_available, notify_on_edit, chat, events,
      eh, dh, gone, delLog, buffer, backupVars, calm>>
vars ==
    <<cache, touched, everDeleted, held, lastCall, sheets, store, pending, archive,
      google_available, notify_on_edit, chat, events, eh, dh, gone, delLog,
      buffer, backupVars, calm>>

\* payloads stored by the cache-only operations, and the keyword arguments
\* of their updates
LruData == {[v |-> "x", w |-> "p"], [v |-> "y", w |-> "p"]}
LruFields == {[v |-> "z"], [w |-> "q"]}

\* The caller's object: k (the key it asked for), shared and d (see
\* GetReturn; d is its items now), and the history got (its items when get
\* returned) and dirty (the caller has assigned to an item since).
NoHeld == [shared |-> FALSE, k |-> 0, d |-> NoRec, got |-> NoRec, dirty |-> FALSE]

\* a call of a method of the cache: its name, key and dict argument
Call(op, k, f) == [op |-> op, k |-> k, f |-> f]

\* events (created, edited, deleted) delivered in one behaviour
MaxEvents == 3

\* The handler's locals (k, new, out, notify, stored) and the history of the
\* call: cached (the key was in the cache at the lookup), dbread
\* (MessagesDB.get was called), sent (notifications sent), dirty (it changed
\* a record of the cache), moved (it changed the cache at all), wrote (it
\* created a table write), res (how it ended), emitted (the messages it sent
\* to the owner, in order). At pc = "done" the coroutine has returned and
\* nothing else has run yet.
EhIdle ==
    [pc |-> "idle", k |-> 0, new |-> NoRec, out |-> FALSE, notify |-> FALSE,
     stored |-> NoRec, cached |-> FALSE, dbread |-> FALSE, sent |-> 0,
     dirty |-> FALSE, moved |-> FALSE, wrote |-> FALSE, res |-> None,
     emitted |-> <<>>]

\* a handler or a backup run has returned in this very step
Returned == eh.pc = "done" \/ \E r \in DOMAIN runs : runs[r].pc \in {"done", "raised"}

\* The locals of handle_deleted_business_messages: ids (event.message_ids), i
\* (position of the running loop), acc (deleted_messages), notify, and of the
\* notification pass: text_buffer, current_sticker_id, current_sticker_count,
\* current_sticker_sample. History: logged (rows written to the log), run
\* (the records counted into the open sticker group), emitted (the messages
\* sent to the owner, in order), issued (keys MessagesDB.delete was called
\* for by the last loop), raised (an exception has left the handler). At
\* pc = "done" the coroutine has ended.
DhIdle ==
    [pc |-> "idle", ids |-> <<>>, i |-> 0, acc |-> <<>>, notify |-> FALSE,
     logged |-> {}, text_buffer |-> <<>>, current_sticker_id |-> None,
     current_sticker_count |-> 0, current_sticker_sample |-> NoRec,
     run |-> <<>>, emitted |-> <<>>, issued |-> {}, raised |-> FALSE]

\* ------------------------------------------------------- StorageManager
\* BACKUP_INTERVAL_HOURS and the one-minute delay of a first backup, in ticks
BACKUP_INTERVAL == 2
FIRST_DELAY == 1
\* ticks of the clock and calls of run_backup in one behaviour
MaxTime == 3
MaxRuns == 2

\* ---------------------------------------------------------- GoogleLogger
\* ticks of the clock in one calendar month
TICKS_PER_MONTH == 2
\* calls of batch_insert in one behaviour, and records in one call
MaxInserts == 2
MaxRows == 2

\* the calendar months of the clock
Months == 0..(MaxTime \div TICKS_PER_MONTH)

\* date_obj.strftime("Log_%Y_%m"): the sheet of the month of a time
SheetName(t) == t \div TICKS_PER_MONTH

\* str(n): the decimal digits of a number, as a cell of a sheet
Str(n) == <<"digits", n>>

\* the row of headers of a new sheet (its second cell is no number)
HeaderRow ==
    [head |-> TRUE, timestamp |-> 0, message_id |-> <<"text", 0>>,
     direction |-> "header",
     content_type |-> "header", content |-> "header", file_id |-> "header"]

\* content of a row without text and with a file: f"[{type_name}]"
TypeTag(t) ==
    CASE t = "photo" -> "[photo]"
      [] t = "text" -> "[text]"

\* the row batch_insert builds of one record (one chat of one owner)
LogRow(m) ==
    LET file_id == extract_file_id(m.d.extra_data)
    IN  [head |-> FALSE, timestamp |-> m.d.timestamp, message_id |-> Str(m.k),
         direction |-> IF m.d.is_outgoing THEN "out" ELSE "in",
         content_type |-> m.d.content_type,
         content |-> IF m.d.message_text # None THEN m.d.message_text
                     ELSE IF file_id # None THEN TypeTag(m.d.content_type)
                     ELSE "",
         file_id |-> IF file_id # None THEN file_id ELSE ""]

\* rows_to_add of batch_insert
RowsToAdd(messages) == [i \in 1..Len(messages) |-> LogRow(messages[i])]

\* The spreadsheet: the sheets it has (exists) and their rows, the sheet the
\* logger holds (current: empty for None), whether start() has run,
\* _logs_cache for the one chat (NoRec: no entry), and the histories call
\* (the last call of batch_insert: its number, argument and time, and whether
\* it raised) and query (the last history query).
NoSheets ==
    [exists |-> {}, rows |-> [m \in Months |-> <<>>], current |-> {},
     started |-> FALSE, logs_cache |-> NoRec,
     call |-> [n |-> 0, messages |-> <<>>, at |-> 0, raised |-> FALSE],
     query |-> NoRec]

\* where a call of the spreadsheet's API fails, if anywhere
SheetFailures == {"none", "open", "add", "header", "freeze", "append"}

\* _ensure_sheet_exists(date_obj) for the sheet name of date_obj
EnsureSheetExists(s, name, fail) ==
    IF name \in s.current
    THEN [s |-> s, raised |-> FALSE]
    ELSE IF fail = "open"
    THEN [s |-> s, raised |-> TRUE]
    ELSE IF name \in s.exists
    THEN [s |-> [s EXCEPT !.current = {name}], raised |-> FALSE]
    ELSE IF fail = "add"
    THEN [s |-> s, raised |-> TRUE]
    ELSE IF fail = "header"
    THEN [s |-> [s EXCEPT !.exists = @ \cup {name}], raised |-> TRUE]
    ELSE IF fail = "freeze"
    THEN [s |-> [s EXCEPT !.exists = @ \cup {name}, !.rows[name] = <<HeaderRow>>],
          raised |-> TRUE]
    ELSE [s |-> [s EXCEPT !.exists = @ \cup {name}, !.rows[name] = <<HeaderRow>>,
                          !.current = {name}],
          raised |-> FALSE]

\* the date batch_insert passes to _ensure_sheet_exists: the time of the call
SheetDate_OfFirstRecord(messages, t) == messages[1].d.timestamp
SheetDate(messages, t) == t

\* batch_insert(messages) called at time t
BatchInsert(s, messages, t, fail) ==
    IF messages = <<>>
    THEN [s |-> s, raised |-> FALSE]
    ELSE LET e == EnsureSheetExists(s, SheetName(SheetDate(messages, t)), fail)
         IN  IF e.raised
             THEN e
             ELSE IF fail = "append"
             THEN [s |-> e.s, raised |-> TRUE]
             ELSE [s |-> [e.s EXCEPT !.rows[CHOOSE n \in e.s.current : TRUE] =
                                         @ \o RowsToAdd(messages)],
                   raised |-> FALSE]

\* add_message: len(self.buffer) % 100 == 0 and total_count >= 3000
AUTO_CHECK_EVERY == 100
AUTO_THRESHOLD == 3000

\* who calls run_backup: _backup_loop, backup_confirm_callback, add_message,
\* stop
Callers == {"sched", "manual", "auto", "stop"}

\* result of run_backup: {success, count, error}
Result(success, count, error) ==
    [success |-> success, count |-> count, error |-> error]

\* A call of run_backup: its locals (msgs = messages_to_backup, i = position of
\* the delete loop, result) and its history: read (how _get_all_messages
\* ended), archived (rows batch_insert has written), issued (calls of
\* MessagesDB.delete, which is also deleted_count), okdel (calls of it that
\* returned True), del (rows those calls removed), archFailed (batch_insert
\* raised), faults (a call of this run failed), cycle (the row it added to the
\* backups table), after (whether it started right after another run with
\* nothing in between). At pc = "done" it has returned its result, at pc =
\* "raised" an exception has left it; nothing else has run yet. At pc =
\* "orphan" the call was cancelled while it awaited the call flight of a
\* worker thread, which the thread has not finished.
RunIdle ==
    [pc |-> "idle", msgs |-> <<>>, i |-> 0, result |-> NoRec, read |-> "no",
     archived |-> {}, issued |-> 0, okdel |-> 0, del |-> {}, archFailed |-> FALSE,
     faults |-> FALSE, cycle |-> NoRec, after |-> None, flight |-> None]

Ended(h) == h.pc \in {"done", "raised"}

Active(rs) == {r \in DOMAIN rs : rs[r].pc # "idle"}

\* the rows of key k of the table, as [k, d] records
RowsOf(s, k) == [i \in 1..Len(s[k]) |-> [k |-> k, d |-> s[k][i]]]

RECURSIVE RowsFrom(_, _)
\* the rows of keys k.. of the table
RowsFrom(s, k) ==
    IF k > NumKeys THEN <<>> ELSE RowsOf(s, k) \o RowsFrom(s, k + 1)

\* _get_all_messages: select("*") on the messages table
GetAllMessages(s) == RowsFrom(s, 1)

\* MessagesDB.count: select("id", count="exact"), the number of rows
StoreCount(s) ==
    Cardinality(UNION {{<<k, i>> : i \in 1..Len(s[k])} : k \in DOMAIN s})

\* a row of the backups table
Cycle(count, status, error, t) ==
    [messages_count |-> count, status |-> status, error_message |-> error,
     timestamp |-> t]

\* BackupsDB.add
BackupsAdd(a, count, status, error, t) == Append(a, Cycle(count, status, error, t))

\* a query without the filter on the status
GetLast_AnyStatus(a) == IF a = <<>> THEN NoRec ELSE a[Len(a)]

\* BackupsDB.get_last: the newest row with status success
GetLast(a) ==
    LET ok == {i \in 1..Len(a) : a[i].status = "success"}
    IN  IF ok = {} THEN NoRec ELSE a[CHOOSE i \in ok : \A j \in ok : j <= i]

\* _schedule_next_backup
ScheduleNext(a, t) ==
    IF GetLast(a) # NoRec THEN GetLast(a).timestamp + BACKUP_INTERVAL
    ELSE t + FIRST_DELAY

\* history: what is kept of a run that has returned
Summary(h, r) ==
    [caller |-> r, result |-> h.result, msgs |-> h.msgs,
     archFailed |-> h.archFailed, faults |-> h.faults,
     raised |-> (h.pc = "raised")]

\* a check that looks at the number of rows after every message
AutoBackupDue_EveryMessage(n, s) == StoreCount(s) >= AUTO_THRESHOLD

\* add_message: the threshold check after the append
AutoBackupDue(n, s) == n % AUTO_CHECK_EVERY = 0 /\ StoreCount(s) >= AUTO_THRESHOLD

\* a run that goes on to the delete loop after batch_insert raised
AfterArchive_Swallow(ok) == "delete"

\* a run without the except branch
AfterArchive_Raise(ok) == IF ok THEN "delete" ELSE "raised"

\* batch_insert returned: the delete loop; it raised: the except branch
AfterArchive(ok) == IF ok THEN "delete" ELSE "except"

\* the first lines of run_backup: if not self.google_available: return result
RunBegin(rs, r, l, c) ==
    LET h == [RunIdle EXCEPT !.after = IF l # NoRec /\ c /\ Active(rs) = {}
                                       THEN "quiet" ELSE "busy"]
    IN  IF google_available
        THEN [h EXCEPT !.pc = "read"]
        ELSE [h EXCEPT !.pc = "done", !.result = Result(FALSE, 0, "unavailable")]

\* ------------------------------------------------- the cache on its own
InitCache ==
    /\ cache = <<>>
    /\ touched = <<>>
    /\ everDeleted = FALSE
    /\ held = NoHeld
    /\ lastCall = Call("none", 0, NoRec)
    /\ sheets = NoSheets
    /\ store = [k \in Keys |-> <<>>]
    /\ pending = {}
    /\ archive = {}
    /\ google_available = TRUE
    /\ notify_on_edit = FALSE
    /\ chat = [k \in Keys |-> "unsent"]
    /\ events = 0
    /\ eh = EhIdle
    /\ dh = DhIdle
    /\ gone = [k \in Keys |-> "no"]
    /\ delLog = {}
    /\ buffer = 0
    /\ now = 0
    /\ audit = <<>>
    /\ next_backup_time = ScheduleNext(audit, now)
    /\ loop = "sleep"
    /\ runs = [r \in Callers |-> RunIdle]
    /\ last = NoRec
    /\ nruns = 0
    /\ calm = TRUE

\* message_cache.set(key, data)
DoCacheSet ==
    \E k \in LruKeys, d \in LruData :
        /\ cache' = CacheSet(cache, k, d)
        /\ touched' = Append(KeyRemove(touched, k), k)
        /\ lastCall' = Call("set", k, d)
        /\ UNCHANGED <<everDeleted, held, sheets, handlerVars>>

\* message_cache.get(key): a hit is a touch, a miss changes nothing; the
\* caller keeps what was returned
DoCacheGet ==
    \E k \in LruKeys :
        /\ cache' = CacheGet(cache, k)
        /\ touched' = IF CacheLookup(cache, k) # NoRec
                      THEN Append(KeyRemove(touched, k), k)
                      ELSE touched
        /\ held' = [shared |-> GetReturn(cache, k).shared, k |-> k,
                    d |-> GetReturn(cache, k).d, got |-> GetReturn(cache, k).d,
                    dirty |-> FALSE]
        /\ lastCall' = Call("get", k, NoRec)
        /\ UNCHANGED <<everDeleted, sheets, handlerVars>>

\* message_cache.delete(key)
DoCacheDelete ==
    \E k \in LruKeys :
        /\ cache' = CacheDelete(cache, k)
        /\ touched' = KeyRemove(touched, k)
        /\ everDeleted' = TRUE
        /\ lastCall' = Call("delete", k, NoRec)
        /\ UNCHANGED <<held, sheets, handlerVars>>

\* message_cache.update(key, **kwargs): a touch of a resident key
DoCacheUpdate ==
    \E k \in LruKeys, f \in LruFields :
        /\ cache' = CacheUpdate(cache, k, f)
        /\ touched' = IF CacheHas(cache, k)
                      THEN Append(KeyRemove(touched, k), k)
                      ELSE touched
        /\ lastCall' = Call("update", k, f)
        /\ UNCHANGED <<everDeleted, held, sheets, handlerVars>>

\* the caller assigns to items of the dict it got (stored["v"] = ...); the
\* cache changes with it only if that dict is the one the cache holds
DoMutate ==
    \E f \in LruFields :
        /\ held.d # NoRec
        /\ held' = [held EXCEPT !.d = Merge(@, f), !.dirty = TRUE]
        /\ cache' = IF held.shared /\ CacheHas(cache, held.k)
                    THEN CacheInPlace(cache, held.k, Merge(held.d, f))
                    ELSE cache
        /\ lastCall' = Call("none", 0, NoRec)
        /\ UNCHANGED <<touched, everDeleted, sheets, handlerVars>>

NextCache == DoCacheSet \/ DoCacheGet \/ DoCacheDelete

SpecCache == InitCache /\ [][NextCache]_vars

\* the cache and a caller that keeps and changes what get returned
NextCopy ==
    \/ DoCacheSet
    \/ DoCacheGet
    \/ DoCacheUpdate
    \/ DoCacheDelete
    \/ DoMutate

SpecCopy == InitCache /\ [][NextCopy]_vars

\* ------------------------------------------------- asynchronous table writes
InsertTask(k, d) == [op |-> "insert", k |-> k, f |-> d, n |-> 0]
UpdateTask(k, f, n) == [op |-> "update", k |-> k, f |-> f, n |-> n]

\* the thread of a created task runs MessagesDB.add / MessagesDB.update
TaskLands ==
    \E t \in pending :
        /\ ~Returned
        /\ pending' = pending \ {t}
        /\ store' = IF t.op = "insert" THEN StoreInsert(store, t.k, t.f)
                    ELSE StoreUpdate(store, t.k, t.f)
        /\ gone' = [gone EXCEPT ![t.k] =
                        IF t.op = "insert" THEN "no"
                        ELSE IF @ = "no" THEN "no" ELSE "deleted_then_updated"]
        /\ calm' = FALSE
        /\ UNCHANGED <<buffer, backupVars>>
        /\ UNCHANGED <<cache, lruVars, archive, google_available, notify_on_edit,
                       chat, events, eh, dh, delLog>>

\* the call raises: MessagesDB.add returns None, MessagesDB.update returns False
TaskFails ==
    \E t \in pending :
        /\ ~Returned
        /\ pending' = pending \ {t}
        /\ UNCHANGED <<buffer, backupVars, calm>>
        /\ UNCHANGED <<cache, lruVars, store, archive, google_available,
                       notify_on_edit, chat, events, eh, dh, gone, delLog>>

\* ------------------------------------------------- handle_business_message
\* message ids grow: a message is created after all smaller ids
CanCreate(k) == chat[k] = "unsent" /\ \A j \in Keys : j < k => chat[j] # "unsent"

InChat(k) == chat[k] \in {"in", "out"}

\* a handler that leaves the record to the insert and the later lookups to
\* the table
CacheCreated_Deferred(c, k, d) == c

\* message_cache.set(owner_id, chat_id, message.message_id, data=msg_data),
\* before the insert is scheduled
CacheCreated(c, k, d) == CacheSet(c, k, d)

HandleBusinessMessage ==
    \E k \in Keys, c \in Contents, out \in BOOLEAN :
        /\ ~Returned
        /\ CanCreate(k)
        /\ events < MaxEvents
        /\ events' = events + 1
        /\ chat' = [chat EXCEPT ![k] = IF out THEN "out" ELSE "in"]
        /\ cache' = CacheCreated(cache, k, MsgData(out, c))
        /\ pending' = pending \cup {InsertTask(k, MsgData(out, c))}
        /\ buffer' = buffer + 1
        /\ IF AutoBackupDue(buffer', store)
           THEN /\ runs' = [runs EXCEPT !.auto = RunBegin(runs, "auto", last, calm)]
                /\ nruns' = nruns + 1
           ELSE UNCHANGED <<runs, nruns>>
        /\ calm' = FALSE
        /\ UNCHANGED <<now, next_backup_time, audit, loop, last>>
        /\ UNCHANGED <<lruVars, store, archive, google_available, notify_on_edit,
                       eh, dh, gone, delLog>>

\* the records the bot holds or is writing for key k
KnownData(k) ==
    {cache[i].d : i \in {j \in 1..Len(cache) : cache[j].k = k}}
        \cup {store[k][i] : i \in 1..Len(store[k])}
        \cup {t.f : t \in {u \in pending : u.op = "insert" /\ u.k = k}}

\* the platform delivers the business_message update of a message again (the
\* update was not acknowledged): handle_business_message runs as for a new
\* message, with the same msg_data
HandleBusinessMessageAgain ==
    \E k \in Keys : \E d \in KnownData(k) :
        /\ ~Returned
        /\ InChat(k)
        /\ d.is_outgoing = (chat[k] = "out")
        /\ events < MaxEvents
        /\ events' = events + 1
        /\ cache' = CacheCreated(cache, k, d)
        /\ pending' = pending \cup {[InsertTask(k, d) EXCEPT !.n = events']}
        /\ buffer' = buffer + 1
        /\ IF AutoBackupDue(buffer', store)
           THEN /\ runs' = [runs EXCEPT !.auto = RunBegin(runs, "auto", last, calm)]
                /\ nruns' = nruns + 1
           ELSE UNCHANGED <<runs, nruns>>
        /\ calm' = FALSE
        /\ UNCHANGED <<now, next_backup_time, audit, loop, last>>
        /\ UNCHANGED <<lruVars, store, archive, google_available, notify_on_edit,
                       chat, eh, dh, gone, delLog>>

\* ------------------------------------------ handle_edited_business_message
\* if is_outgoing: if not owner.get("notify_on_edit", False): return
SuppressOutgoing(out, notify) == out /\ ~notify

TypeChanged(stored, new) == new.content_type # stored.content_type
TextChanged(stored, new) == OrEmpty(new.text) # OrEmpty(stored.message_text)
\* a comparison that takes an absent file id for a different one
MediaChanged_AnyDifference(stored, new) ==
    extract_file_id(new.extra_data) # extract_file_id(stored.extra_data)

\* if new_file_id and old_file_id and new_file_id != old_file_id
MediaChanged(stored, new) ==
    LET new_file_id == extract_file_id(new.extra_data)
        old_file_id == extract_file_id(stored.extra_data)
    IN  new_file_id # None /\ old_file_id # None /\ new_file_id # old_file_id

\* a handler without the no-op check
EditNoop_Never(stored, new) == FALSE

\* if not type_changed and not text_changed and not media_changed: return
EditNoop(stored, new) ==
    ~TypeChanged(stored, new) /\ ~TextChanged(stored, new) /\ ~MediaChanged(stored, new)

\* the keyword arguments of message_cache.update and MessagesDB.update
EditFields(new) ==
    [message_text |-> OrEmpty(new.text),
     content_type |-> new.content_type,
     extra_data   |-> new.extra_data]

\* a lookup that always asks the table
NeedsDbGet_Always(stored) == TRUE

\* if not stored: stored = await asyncio.to_thread(MessagesDB.get, ...)
NeedsDbGet(stored) == stored = NoRec

\* if not stored: return
Discard(stored) == stored = NoRec

\* snapshot and event agree in content type, normalized text and file id
SameContent(stored, new) ==
    /\ stored.content_type = new.content_type
    /\ OrEmpty(stored.message_text) = OrEmpty(new.text)
    /\ extract_file_id(stored.extra_data) = extract_file_id(new.extra_data)

\* the cache holds the fields of the event under key k
CacheFresh(c, k, new) ==
    /\ CacheHas(c, k)
    /\ CacheData(c, k).content_type = new.content_type
    /\ OrEmpty(CacheData(c, k).message_text) = OrEmpty(new.text)
    /\ CacheData(c, k).extra_data = new.extra_data

\* the handler returns
EditReturn(h, res) == [h EXCEPT !.pc = "done", !.res = res]

\* the checks between the lookup and the first notification
EditDecide(h, stored) ==
    IF SuppressOutgoing(h.out, h.notify)
    THEN EditReturn([h EXCEPT !.stored = stored], "suppressed")
    ELSE IF EditNoop(stored, h.new)
    THEN EditReturn([h EXCEPT !.stored = stored], "noop")
    ELSE [h EXCEPT !.pc = "send", !.stored = stored]

\* a message sent to the owner: a text (send_notification) or a media send
\* (bot.send_photo, ...) with its caption; primary marks the notification msg,
\* and form is the template msg was built from
TextMsg(form, primary) ==
    [kind |-> "text", form |-> form, primary |-> primary, file |-> None]
MediaMsg(form, f) ==
    [kind |-> "media", form |-> form, primary |-> FALSE, file |-> f]

\* send_media_by_type: a photo is sent with the caption, an unknown type as a
\* text; nothing is sent for an absent file id
MediaByType(f, content_type, caption) ==
    IF f = None THEN <<>>
    ELSE IF content_type = "photo" THEN <<MediaMsg(caption, f)>>
    ELSE <<TextMsg(caption, FALSE)>>

\* the comparison sent along with a text or caption edit: photo, video and
\* document only
MediaInline(f, content_type, caption) ==
    IF content_type = "photo" THEN <<MediaMsg(caption, f)>> ELSE <<>>

\* a renderer without the media-only branch
RenderCase_NoMediaBranch(stored, new) ==
    IF new.content_type # "text" THEN "caption" ELSE "text"

\* a renderer whose media-only branch does not look at the type
RenderCase_MediaDeltaOnly(stored, new) ==
    IF MediaChanged(stored, new) /\ ~TextChanged(stored, new) THEN "media"
    ELSE IF new.content_type # "text" THEN "caption" ELSE "text"

\* the branch that builds msg:  if (type_changed or media_changed) and not
\* text_changed: ... else: is_caption_edit = new_type != "text"
RenderCase(stored, new) ==
    IF (TypeChanged(stored, new) \/ MediaChanged(stored, new)) /\ ~TextChanged(stored, new)
    THEN "media"
    ELSE IF new.content_type # "text" THEN "caption" ELSE "text"

\* everything the rendering block sends, in order: msg, then the comparison
\* of the old and the new media
EditRender(stored, new) ==
    LET old_file_id == extract_file_id(stored.extra_data)
        new_file_id == extract_file_id(new.extra_data)
        form == RenderCase(stored, new)
    IN  IF form = "media"
        THEN <<TextMsg(form, TRUE)>>
             \o MediaByType(old_file_id, stored.content_type, "was")
             \o MediaByType(new_file_id, new.content_type, "now")
        ELSE <<TextMsg(form, TRUE)>>
             \o (IF MediaChanged(stored, new) /\ old_file_id # None
                                               /\ new_file_id # None
                 THEN MediaInline(old_file_id, stored.content_type, "was")
                      \o MediaInline(new_file_id, new.content_type, "now")
                 ELSE <<>>)

\* the event arrives; owner = await OwnersDB.get_by_connection_id(...)
EditBegin(k, c) ==
    /\ eh.pc = "idle"
    /\ InChat(k)
    /\ events < MaxEvents
    /\ events' = events + 1
    /\ eh' = [EhIdle EXCEPT !.pc = "lookup", !.k = k, !.new = c,
                            !.out = (chat[k] = "out"), !.notify = notify_on_edit]
    /\ calm' = FALSE
    /\ UNCHANGED <<buffer, backupVars>>
    /\ UNCHANGED <<cache, lruVars, store, pending, archive, google_available,
                   notify_on_edit, chat, dh, gone, delLog>>

EditStart == \E k \in Keys, c \in Contents : EditBegin(k, c)

\* the same event with any of the contents of EditContents
EditStartAny == \E k \in Keys, c \in EditContents : EditBegin(k, c)

\* stored = message_cache.get(...), and the checks when it is a hit
EditLookup ==
    /\ eh.pc = "lookup"
    /\ cache' = CacheGet(cache, eh.k)
    /\ LET stored == CacheLookup(cache, eh.k)
           h == [eh EXCEPT !.cached = CacheHas(cache, eh.k),
                           !.moved = @ \/ (cache' # cache),
                           !.dirty = @ \/ CacheMap(cache') # CacheMap(cache)]
       IN  eh' = IF NeedsDbGet(stored) THEN [h EXCEPT !.pc = "dbget"]
                 ELSE EditDecide(h, stored)
    /\ UNCHANGED <<buffer, backupVars, calm>>
    /\ UNCHANGED <<lruVars, store, pending, archive, google_available,
                   notify_on_edit, chat, events, dh, gone, delLog>>

\* stored = await asyncio.to_thread(MessagesDB.get, ...), and the checks; an
\* exception of the query (MessagesDB.get has no try) leaves the handler
EditDbGet ==
    \E ok \in BOOLEAN :
        /\ eh.pc = "dbget"
        /\ LET stored == StoreGet(store, eh.k)
               h == [eh EXCEPT !.dbread = TRUE]
           IN  eh' = IF ~ok THEN EditReturn(h, "raised")
                     ELSE IF Discard(stored)
                     THEN EditReturn(h, "notfound")
                     ELSE EditDecide(h, stored)
        /\ UNCHANGED <<buffer, backupVars, calm>>
        /\ UNCHANGED <<cache, lruVars, store, pending, archive, google_available,
                       notify_on_edit, chat, events, dh, gone, delLog>>

\* the rendering block: await send_notification(message.bot, owner_id, msg)
\* and the media comparison
EditSend ==
    /\ eh.pc = "send"
    /\ eh' = [eh EXCEPT !.pc = "apply", !.sent = @ + 1,
                        !.emitted = EditRender(eh.stored, eh.new)]
    /\ UNCHANGED <<buffer, backupVars, calm>>
    /\ UNCHANGED <<cache, lruVars, store, pending, archive, google_available,
                   notify_on_edit, chat, events, dh, gone, delLog>>

\* message_cache.update(...); asyncio.create_task(... MessagesDB.update ...)
EditApply ==
    /\ eh.pc = "apply"
    /\ cache' = CacheUpdate(cache, eh.k, EditFields(eh.new))
    /\ pending' = pending \cup {UpdateTask(eh.k, EditFields(eh.new), events)}
    /\ eh' = EditReturn([eh EXCEPT !.moved = @ \/ (cache' # cache),
                                   !.dirty = @ \/ (CacheMap(cache') # CacheMap(cache)),
                                   !.wrote = @ \/ (pending' # pending)],
                        "applied")
    /\ UNCHANGED <<buffer, backupVars, calm>>
    /\ UNCHANGED <<lruVars, store, archive, google_available, notify_on_edit,
                   chat, events, dh, gone, delLog>>

\* the finished task of the handler is dropped by the event loop
EditFinish ==
    /\ Returned
    /\ eh' = EhIdle
    /\ UNCHANGED <<buffer, backupVars, calm>>
    /\ UNCHANGED <<cache, lruVars, store, pending, archive, google_available,
                   notify_on_edit, chat, events, dh, gone, delLog>>

\* ---------------------------------------- handle_deleted_business_messages
RECURSIVE SetToSeq(_)
\* event.message_ids: the ids of the batch in ascending order
SetToSeq(S) ==
    IF S = {} THEN <<>>
    ELSE LET m == CHOOSE x \in S : \A y \in S : x <= y
         IN  <<m>> \o SetToSeq(S \ {m})

\* if is_outgoing and not notify_on_edit: delete silently
SilentDelete(stored, notify) == stored.is_outgoing /\ ~notify

\* msg_copy["content_type"] = f"DELETED ({current_type})"
DeletedRow(m) == [k |-> m.k, d |-> [m.d EXCEPT !.content_type = <<"DELETED", @>>]]

\* a row of the log as the backup run writes it
ArchiveRow(m) == [k |-> m.k, d |-> m.d]

\* the record the flow holds for key k (deleted_messages)
Resolved(h, k) == {h.acc[x].d : x \in {y \in 1..Len(h.acc) : h.acc[y].k = k}}

\* history: the delete removed a row; was that record logged by this flow before
DelEntry(h, k, silent) ==
    IF silent THEN "silent"
    ELSE IF \E d \in Resolved(h, k) : [k |-> k, d |-> d] \in h.logged THEN "archived"
    ELSE "unarchived"

\* the event arrives; owner = await OwnersDB.get_by_connection_id(...)
DeleteStart ==
    \E S \in (SUBSET Keys) \ {{}} :
        /\ ~Returned
        /\ dh.pc = "idle"
        /\ \A k \in S : InChat(k)
        /\ events < MaxEvents
        /\ events' = events + 1
        /\ chat' = [k \in Keys |-> IF k \in S THEN "deleted" ELSE chat[k]]
        /\ dh' = [DhIdle EXCEPT !.pc = "resolve", !.ids = SetToSeq(S), !.i = 1,
                                !.notify = notify_on_edit]
        /\ calm' = FALSE
        /\ UNCHANGED <<buffer, backupVars>>
        /\ UNCHANGED <<cache, lruVars, store, pending, archive, google_available,
                       notify_on_edit, eh, gone, delLog>>

\* one id of the batch: stored = message_cache.get(...)
DeleteResolve ==
    /\ ~Returned
    /\ dh.pc = "resolve"
    /\ dh.i <= Len(dh.ids)
    /\ LET k == dh.ids[dh.i]
           stored == CacheLookup(cache, k)
       IN  IF stored = NoRec
           THEN /\ cache' = CacheGet(cache, k)
                /\ dh' = [dh EXCEPT !.pc = "dbget"]
           ELSE IF SilentDelete(stored, dh.notify)
           THEN /\ cache' = CacheDelete(CacheGet(cache, k), k)
                /\ dh' = [dh EXCEPT !.pc = "silent_db"]
           ELSE /\ cache' = CacheGet(cache, k)
                /\ dh' = [dh EXCEPT !.acc = Append(@, [k |-> k, d |-> stored]),
                                    !.i = @ + 1]
    /\ UNCHANGED <<buffer, backupVars, calm>>
    /\ UNCHANGED <<lruVars, store, pending, archive, google_available,
                   notify_on_edit, chat, events, eh, gone, delLog>>

\* stored = await asyncio.to_thread(MessagesDB.get, ...) after a cache miss;
\* an exception of the query (MessagesDB.get has no try) leaves the handler
DeleteDbGet ==
    \E ok \in BOOLEAN :
        /\ ~Returned
        /\ dh.pc = "dbget"
        /\ LET k == dh.ids[dh.i]
               stored == StoreGet(store, k)
           IN  IF ~ok
               THEN /\ cache' = cache
                    /\ dh' = [dh EXCEPT !.pc = "done", !.raised = TRUE]
               ELSE IF stored = NoRec
               THEN /\ cache' = cache
                    /\ dh' = [dh EXCEPT !.pc = "resolve", !.i = @ + 1]
               ELSE IF SilentDelete(stored, dh.notify)
               THEN /\ cache' = CacheDelete(cache, k)
                    /\ dh' = [dh EXCEPT !.pc = "silent_db"]
               ELSE /\ cache' = cache
                    /\ dh' = [dh EXCEPT !.pc = "resolve",
                                        !.acc = Append(@, [k |-> k, d |-> stored]),
                                        !.i = @ + 1]
        /\ UNCHANGED <<buffer, backupVars, calm>>
        /\ UNCHANGED <<lruVars, store, pending, archive, google_available,
                       notify_on_edit, chat, events, eh, gone, delLog>>

\* await asyncio.to_thread(MessagesDB.delete, ...) of a silent delete; the call
\* may raise, which MessagesDB.delete turns into False
DeleteSilentDb ==
    \E ok \in BOOLEAN :
        /\ ~Returned
        /\ dh.pc = "silent_db"
        /\ LET k == dh.ids[dh.i]
           IN  /\ store' = IF ok THEN StoreDelete(store, k) ELSE store
               /\ gone' = IF ok THEN [gone EXCEPT ![k] = "deleted"] ELSE gone
               /\ delLog' = IF ok /\ Live(store, k)
                            THEN delLog \cup {DelEntry(dh, k, TRUE)}
                            ELSE delLog
        /\ dh' = [dh EXCEPT !.pc = "resolve", !.i = @ + 1]
        /\ calm' = FALSE
        /\ UNCHANGED <<buffer, backupVars>>
        /\ UNCHANGED <<cache, lruVars, pending, archive, google_available,
                       notify_on_edit, chat, events, eh>>

\* the end of the first loop: if not deleted_messages: return
DeleteCollected ==
    /\ ~Returned
    /\ dh.pc = "resolve"
    /\ dh.i > Len(dh.ids)
    /\ dh' = IF dh.acc = <<>> THEN DhIdle
             ELSE [dh EXCEPT !.pc = "archive"]
    /\ UNCHANGED <<buffer, backupVars, calm>>
    /\ UNCHANGED <<cache, lruVars, store, pending, archive, google_available,
                   notify_on_edit, chat, events, eh, gone, delLog>>

\* await storage_mgr.log_deleted_messages(deleted_messages): nothing when the
\* log is not available; an exception of batch_insert is logged and dropped
DeleteArchive ==
    \E ok \in BOOLEAN :
        /\ ~Returned
        /\ dh.pc = "archive"
        /\ IF google_available /\ ok
           THEN /\ archive' = archive \cup {DeletedRow(dh.acc[x]) : x \in 1..Len(dh.acc)}
                /\ dh' = [dh EXCEPT !.pc = "notify",
                                    !.logged = {ArchiveRow(dh.acc[x]) : x \in 1..Len(dh.acc)}]
           ELSE /\ archive' = archive
                /\ dh' = [dh EXCEPT !.pc = "notify"]
        /\ UNCHANGED <<buffer, backupVars, calm>>
        /\ UNCHANGED <<cache, lruVars, store, pending, google_available,
                       notify_on_edit, chat, events, eh, gone, delLog>>

\* the pass over deleted_messages that renders and sends the notifications
DeleteNotify ==
    /\ ~Returned
    /\ dh.pc = "notify"
    /\ dh' = [dh EXCEPT !.pc = "delete_cache", !.i = 1]
    /\ UNCHANGED <<buffer, backupVars, calm>>
    /\ UNCHANGED <<cache, lruVars, store, pending, archive, google_available,
                   notify_on_edit, chat, events, eh, gone, delLog>>

\* ---- the notification pass of handle_deleted_business_messages in detail
\* a last loop that skips the records whose notification was not delivered
PurgeList_DeliveredOnly(h) ==
    LET lost == {x \in 1..Len(h.acc) :
                    \E j \in 1..Len(h.emitted) :
                        ~h.emitted[j].ok /\ h.acc[x].k \in Range(h.emitted[j].src)}
    IN  SeqRemoveAll(h.acc, lost)

\* for msg in deleted_messages: the records the last loop goes through
PurgeList(h) == h.acc

\* records of one batch, and the longest batch whose sends may fail
MaxBatch == 5
MaxFlakyBatch == 3
BatchKeys == 1..MaxBatch

\* bot.send_message and bot.send_sticker, ... succeed or raise
SendOutcomes(h) == IF Len(h.acc) <= MaxFlakyBatch THEN BOOLEAN ELSE {TRUE}

\* get_content_type of a sticker and of a video note
StickerContent(f) == [content_type |-> "sticker", text |-> None, extra_data |-> FileMeta(f)]
VideoNoteContent(f) == [content_type |-> "video_note", text |-> None, extra_data |-> FileMeta(f)]

\* the content types send_media_item sends with msg as the caption
CaptionTypes == {"photo", "video", "animation", "document", "audio", "voice"}

\* html.escape on the texts of the model
escape(t) == IF t = "<b>" THEN "&lt;b&gt;" ELSE t

\* get_time_str and get_full_date_str: the local time of a timestamp
get_time_str(iso_time) == <<"HH:MM", iso_time>>
get_full_date_str(iso_time) == <<"dd/mm/yy HH:MM", iso_time>>

\* item["message_text"] or the placeholder of the summary
NO_TEXT == "[bez teksta]"
OrNoText(t) == IF t = None THEN NO_TEXT ELSE t

\* A message sent to the owner by the pass. kind: "single" (the notification
\* of one record: msg of format_deleted_message, as a text or as the caption
\* of its media, or the bare sticker), "summary" (the text batch), "group"
\* (the collapsed sticker notification). count, time, text, file and entries
\* are what the message shows; ok is whether the send succeeded; src
\* (history) is the ids of the records the message stands for.
Note(kind, src, count, time, text, file, entries, ok) ==
    [kind |-> kind, src |-> src, count |-> count, time |-> time, text |-> text,
     file |-> file, entries |-> entries, ok |-> ok]

\* the entries of the summary: i, t_str and txt of each item
TextEntries(batch) ==
    [i \in 1..Len(batch) |->
        [n |-> i, time |-> get_time_str(batch[i].d.timestamp),
         text |-> escape(OrNoText(batch[i].d.message_text))]]

\* a summary that lists the items newest first
SendTextBatch_Reversed(batch, ok) ==
    IF batch = <<>> THEN <<>>
    ELSE LET rev == [i \in 1..Len(batch) |-> batch[Len(batch) + 1 - i]]
         IN  <<Note("summary", [i \in 1..Len(batch) |-> batch[i].k], Len(batch),
                    None, None, None, TextEntries(rev), ok)>>

\* send_text_batch
SendTextBatch(batch, ok) ==
    IF batch = <<>> THEN <<>>
    ELSE IF Len(batch) = 1
    THEN <<Note("single", <<batch[1].k>>, 1, get_full_date_str(batch[1].d.timestamp),
                OrEmpty(batch[1].d.message_text), None, <<>>, ok)>>
    ELSE <<Note("summary", [i \in 1..Len(batch) |-> batch[i].k], Len(batch),
                None, None, None, TextEntries(batch), ok)>>

\* send_media_item: a sticker is sent bare, a video note after msg as a
\* text, the types of CaptionTypes with msg as the caption, any other type as
\* msg alone; msg is sent as a text when there is no file id or the media send
\* raised (if not sent). ok: the sends of texts succeed; mok: the send of the
\* media succeeds.
SendMediaItem(m, ok, mok) ==
    LET file_id == extract_file_id(m.d.extra_data)
        time == get_full_date_str(m.d.timestamp)
        ct == m.d.content_type
        msg == Note("single", <<m.k>>, 1, time, m.d.message_text, None, <<>>, ok)
        bare == Note("single", <<m.k>>, 1, None, None, file_id, <<>>, mok)
        not_sent == IF mok THEN <<>> ELSE <<msg>>
    IN  IF file_id # None
        THEN IF ct = "sticker" THEN <<bare>> \o not_sent
             ELSE IF ct = "video_note" THEN <<msg, bare>> \o not_sent
             ELSE IF ct \in CaptionTypes
             THEN <<[msg EXCEPT !.file = file_id, !.ok = mok]>> \o not_sent
             ELSE <<msg>>
        ELSE <<msg>>

\* flush_sticker_group
FlushStickerGroup(h, ok, mok) ==
    LET smpl == h.current_sticker_sample
        out == IF h.current_sticker_count > 0 /\ smpl # NoRec
               THEN IF h.current_sticker_count > 1
                    THEN <<Note("group", h.run, h.current_sticker_count,
                                get_full_date_str(smpl.d.timestamp), None, None,
                                <<>>, ok)>>
                         \o SendMediaItem(smpl, ok, mok)
                    ELSE SendMediaItem(smpl, ok, mok)
               ELSE <<>>
    IN  [h EXCEPT !.emitted = @ \o out, !.current_sticker_id = None,
                  !.current_sticker_count = 0, !.current_sticker_sample = NoRec,
                  !.run = <<>>]

\* a flush that sends the buffered texts and keeps them in the buffer
FlushTextBuffer_Kept(h, ok) ==
    [h EXCEPT !.emitted = @ \o SendTextBatch(h.text_buffer, ok)]

\* await send_text_batch(text_buffer); text_buffer = []
FlushTextBuffer(h, ok) ==
    [h EXCEPT !.emitted = @ \o SendTextBatch(h.text_buffer, ok), !.text_buffer = <<>>]

\* a comparison that takes every sticker for the current one
SameSticker_Any(fid, current_sticker_id) == TRUE

\* if fid and fid == current_sticker_id
SameSticker(fid, current_sticker_id) == fid # None /\ fid = current_sticker_id

\* a pass that keeps the buffered texts when a sticker arrives
TextsBeforeSticker_Kept(h, ok) == h

\* if text_buffer: await send_text_batch(text_buffer); text_buffer = []
TextsBeforeSticker(h, ok) ==
    IF h.text_buffer # <<>> THEN FlushTextBuffer(h, ok) ELSE h

\* one iteration of  for msg in deleted_messages
NotifyIter(h, m, ok, mok) ==
    IF m.d.content_type = "sticker"
    THEN LET h1 == TextsBeforeSticker(h, ok)
             fid == extract_file_id(m.d.extra_data)
         IN  IF SameSticker(fid, h1.current_sticker_id)
             THEN [h1 EXCEPT !.current_sticker_count = @ + 1, !.run = Append(@, m.k)]
             ELSE [FlushStickerGroup(h1, ok, mok) EXCEPT
                       !.current_sticker_id = fid, !.current_sticker_count = 1,
                       !.current_sticker_sample = m, !.run = <<m.k>>]
    ELSE LET h1 == FlushStickerGroup(h, ok, mok)
         IN  IF m.d.content_type = "text"
             THEN [h1 EXCEPT !.text_buffer = Append(@, m)]
             ELSE [FlushTextBuffer(h1, ok) EXCEPT
                       !.emitted = @ \o SendMediaItem(m, ok, mok)]

\* a pass that sends the last texts and leaves the sticker group as it is
NotifyEnd_GroupKept(h, ok, mok) ==
    [h EXCEPT !.emitted = @ \o SendTextBatch(h.text_buffer, ok)]

\* after the loop: await flush_sticker_group(); await send_text_batch(text_buffer)
\* (text_buffer is not assigned again)
NotifyEnd(h, ok, mok) ==
    LET h1 == FlushStickerGroup(h, ok, mok)
    IN  [h1 EXCEPT !.emitted = @ \o SendTextBatch(h1.text_buffer, ok)]

\* one record of the batch is handled; the sends of texts and the sends of
\* media of the iteration succeed or fail
NotifyOne ==
    \E ok \in SendOutcomes(dh), mok \in SendOutcomes(dh) :
        /\ ~Returned
        /\ dh.pc = "render"
        /\ dh.i <= Len(dh.acc)
        /\ dh' = [NotifyIter(dh, dh.acc[dh.i], ok, mok) EXCEPT !.i = @ + 1]
        /\ UNCHANGED <<buffer, backupVars, calm>>
        /\ UNCHANGED <<cache, lruVars, store, pending, archive, google_available,
                       notify_on_edit, chat, events, eh, gone, delLog>>

\* the flushes after the loop
NotifyRest ==
    \E ok \in SendOutcomes(dh), mok \in SendOutcomes(dh) :
        /\ ~Returned
        /\ dh.pc = "render"
        /\ dh.i > Len(dh.acc)
        /\ LET h == NotifyEnd(dh, ok, mok)
           IN  dh' = IF PurgeList(h) = <<>> THEN [h EXCEPT !.pc = "done"]
                     ELSE [h EXCEPT !.pc = "delete_cache", !.i = 1]
        /\ UNCHANGED <<buffer, backupVars, calm>>
        /\ UNCHANGED <<cache, lruVars, store, pending, archive, google_available,
                       notify_on_edit, chat, events, eh, gone, delLog>>

\* the last loop: message_cache.delete(...)
DeleteCache ==
    /\ ~Returned
    /\ dh.pc = "delete_cache"
    /\ cache' = CacheDelete(cache, PurgeList(dh)[dh.i].k)
    /\ dh' = [dh EXCEPT !.pc = "delete_db"]
    /\ UNCHANGED <<buffer, backupVars, calm>>
    /\ UNCHANGED <<lruVars, store, pending, archive, google_available,
                   notify_on_edit, chat, events, eh, gone, delLog>>

\* the last loop: await asyncio.to_thread(MessagesDB.delete, ...)
DeleteDb ==
    \E ok \in BOOLEAN :
        /\ ~Returned
        /\ dh.pc = "delete_db"
        /\ LET k == PurgeList(dh)[dh.i].k
           IN  /\ store' = IF ok THEN StoreDelete(store, k) ELSE store
               /\ gone' = IF ok THEN [gone EXCEPT ![k] = "deleted"] ELSE gone
               /\ delLog' = IF ok /\ Live(store, k)
                            THEN delLog \cup {DelEntry(dh, k, FALSE)}
                            ELSE delLog
               /\ dh' = IF dh.i < Len(PurgeList(dh))
                        THEN [dh EXCEPT !.pc = "delete_cache", !.i = @ + 1,
                                        !.issued = @ \cup {k}]
                        ELSE [dh EXCEPT !.pc = "done", !.issued = @ \cup {k}]
        /\ calm' = FALSE
        /\ UNCHANGED <<buffer, backupVars>>
        /\ UNCHANGED <<cache, lruVars, pending, archive, google_available,
                       notify_on_edit, chat, events, eh>>

\* the finished task of the handler is dropped by the event loop
DeleteFinish ==
    /\ dh.pc = "done"
    /\ dh' = DhIdle
    /\ UNCHANGED <<buffer, backupVars, calm>>
    /\ UNCHANGED <<cache, lruVars, store, pending, archive, google_available,
                   notify_on_edit, chat, events, eh, gone, delLog>>

\* ------------------------------------------------------ the handlers together
\* The process starts with an empty cache; the table may hold the records of
\* messages received before the restart, and the chat may hold messages the
\* bot never saw.
InitAll(a) ==
    /\ cache = <<>>
    /\ touched = <<>>
    /\ everDeleted = FALSE
    /\ held = NoHeld
    /\ lastCall = Call("none", 0, NoRec)
    /\ sheets = NoSheets
    /\ \E n \in 0..NumKeys : \E pre \in SUBSET (1..n), dir \in [1..n -> {"in", "out"}] :
        /\ chat = [k \in Keys |-> IF k <= n THEN dir[k] ELSE "unsent"]
        /\ store = [k \in Keys |->
                      IF k \in pre THEN <<MsgData(dir[k] = "out", TextContent("a"))>>
                      ELSE <<>>]
    /\ pending = {}
    /\ archive = {}
    /\ google_available \in BOOLEAN
    /\ notify_on_edit \in BOOLEAN
    /\ events = 0
    /\ eh = EhIdle
    /\ dh = DhIdle
    /\ gone = [k \in Keys |-> "no"]
    /\ delLog = {}
    /\ buffer = 0
    /\ now = 0
    /\ audit = a
    /\ next_backup_time = ScheduleNext(audit, now)
    /\ loop = "sleep"
    /\ runs = [r \in Callers |-> RunIdle]
    /\ last = NoRec
    /\ nruns = 0
    /\ calm = TRUE

\* no backup has been recorded yet
Init == InitAll(<<>>)

Next ==
    \/ HandleBusinessMessage
    \/ TaskLands
    \/ TaskFails
    \/ EditStart
    \/ EditLookup
    \/ EditDbGet
    \/ EditSend
    \/ EditApply
    \/ EditFinish
    \/ DeleteStart
    \/ DeleteResolve
    \/ DeleteDbGet
    \/ DeleteSilentDb
    \/ DeleteCollected
    \/ DeleteArchive
    \/ DeleteNotify
    \/ DeleteCache
    \/ DeleteDb
    \/ DeleteFinish

Spec == Init /\ [][Next]_vars

\* ------------------------------------- the handlers of a process from its start
\* the newest message of the chat arrives while the process is running; the
\* older ones may have arrived before its start
InitFresh == Init /\ chat[NumKeys] = "unsent"

SpecFresh == InitFresh /\ [][Next]_vars

\* ------------------------------------------ created messages, delivered again
NextRetry ==
    \/ HandleBusinessMessage
    \/ HandleBusinessMessageAgain
    \/ TaskLands
    \/ TaskFails

SpecRetry == Init /\ [][NextRetry]_vars

\* ------------------------------------------------- the edit handler on its own
\* One message of the chat is known to the bot, with any of the contents of
\* EditContents: its record is in the table, and in the cache unless the
\* process has restarted since.
InitEditOf(C) ==
    /\ \E c \in C, out \in BOOLEAN, hot \in BOOLEAN :
        /\ chat = [k \in Keys |-> IF k = 1 THEN (IF out THEN "out" ELSE "in")
                                  ELSE "unsent"]
        /\ store = [k \in Keys |-> IF k = 1 THEN <<MsgData(out, c)>> ELSE <<>>]
        /\ cache = IF hot THEN CacheSet(<<>>, 1, MsgData(out, c)) ELSE <<>>
        /\ touched = IF hot THEN <<1>> ELSE <<>>
    /\ everDeleted = FALSE
    /\ held = NoHeld
    /\ lastCall = Call("none", 0, NoRec)
    /\ sheets = NoSheets
    /\ pending = {}
    /\ archive = {}
    /\ google_available = TRUE
    /\ notify_on_edit \in BOOLEAN
    /\ events = 0
    /\ eh = EhIdle
    /\ dh = DhIdle
    /\ gone = [k \in Keys |-> "no"]
    /\ delLog = {}
    /\ buffer = 0
    /\ now = 0
    /\ audit = <<>>
    /\ next_backup_time = ScheduleNext(audit, now)
    /\ loop = "sleep"
    /\ runs = [r \in Callers |-> RunIdle]
    /\ last = NoRec
    /\ nruns = 0
    /\ calm = TRUE

InitEdit == InitEditOf(EditContents)

\* a photo whose row has no extra_data (extract_file_id: if not extra_data)
PhotoNoMeta == [content_type |-> "photo", text |-> "a", extra_data |-> NoMeta]

\* the same, the row of the message possibly being such a photo
InitDelta == InitEditOf(EditContents \cup {PhotoNoMeta})

NextEdit ==
    \/ EditStartAny
    \/ EditLookup
    \/ EditDbGet
    \/ EditSend
    \/ EditApply
    \/ EditFinish
    \/ TaskLands
    \/ TaskFails

SpecEdit == InitEdit /\ [][NextEdit]_vars

SpecDelta == InitDelta /\ [][NextEdit]_vars

\* ------------------------------------- the notification pass on its own
\* what the platform delivered for the records of a batch
BatchContents ==
    {StickerContent("A"), StickerContent("B"), TextContent("a"),
     TextContent("<b>"), PhotoContent(None, "f1")}

\* msg_data of an incoming message with its timestamp (message.date)
Stored(c, t) ==
    [content_type |-> c.content_type, message_text |-> c.text,
     extra_data |-> c.extra_data, is_outgoing |-> FALSE, timestamp |-> t]

\* what the platform delivered where the media sends are examined
MediaContents ==
    {StickerContent("A"), VideoNoteContent("n1"), PhotoContent(None, "f1"),
     TextContent("a")}

\* The handler has resolved a batch of up to n records (message ids 1, 2, ...
\* sent at times 1, 2, ..., contents of C) and has written them to the log;
\* the records are in the table and the newest of them in the cache.
InitBatchOf(n, C) ==
    /\ \E len \in 1..n : \E cs \in [1..len -> C] :
        LET acc == [i \in 1..len |-> [k |-> i, d |-> Stored(cs[i], i)]]
        IN  /\ dh = [DhIdle EXCEPT !.pc = "render", !.ids = [i \in 1..len |-> i],
                                   !.i = 1, !.acc = acc,
                                   !.logged = {ArchiveRow(acc[x]) : x \in 1..len}]
            /\ store = [k \in BatchKeys |-> IF k <= len THEN <<acc[k].d>> ELSE <<>>]
            /\ cache = LastN(acc, max_size)
            /\ touched = [i \in 1..Len(cache) |-> cache[i].k]
            /\ archive = {DeletedRow(acc[x]) : x \in 1..len}
            /\ chat = [k \in BatchKeys |-> IF k <= len THEN "deleted" ELSE "unsent"]
    /\ everDeleted = FALSE
    /\ held = NoHeld
    /\ lastCall = Call("none", 0, NoRec)
    /\ sheets = NoSheets
    /\ pending = {}
    /\ google_available = TRUE
    /\ notify_on_edit = FALSE
    /\ events = 1
    /\ eh = EhIdle
    /\ gone = [k \in BatchKeys |-> "no"]
    /\ delLog = {}
    /\ buffer = 0
    /\ now = 0
    /\ audit = <<>>
    /\ next_backup_time = ScheduleNext(audit, now)
    /\ loop = "sleep"
    /\ runs = [r \in Callers |-> RunIdle]
    /\ last = NoRec
    /\ nruns = 0
    /\ calm = TRUE

InitBatch(n) == InitBatchOf(n, BatchContents)

InitNotify == InitBatch(MaxBatch)

NextNotify == NotifyOne \/ NotifyRest

SpecNotify == InitNotify /\ [][NextNotify]_vars

\* the pass and the last loop, on the batches whose sends may fail
InitPurge == InitBatch(MaxFlakyBatch)

NextPurge ==
    \/ NotifyOne
    \/ NotifyRest
    \/ DeleteCache
    \/ DeleteDb
    \/ DeleteFinish

SpecPurge == InitPurge /\ [][NextPurge]_vars

\* the pass on batches with every kind of media send
InitMedia == InitBatchOf(MaxFlakyBatch, MediaContents)

SpecMedia == InitMedia /\ [][NextNotify]_vars

\* ------------------------------------------- add_message near the threshold
\* The manager has started at some time in the past; since then, or since
\* the last backup that found rows, add_message was called b times, and the
\* table holds n rows of older messages of other chats (keys NumKeys + 1 ..),
\* just below the threshold.
InitAuto ==
    /\ \E n \in {AUTO_THRESHOLD - 2, AUTO_THRESHOLD - 1},
          b \in {0, AUTO_CHECK_EVERY - 2, AUTO_CHECK_EVERY - 1} :
        /\ store = [k \in 1..(NumKeys + n) |->
                      IF k > NumKeys THEN <<MsgData(FALSE, TextContent("a"))>>
                      ELSE <<>>]
        /\ buffer = b
    /\ cache = <<>>
    /\ touched = <<>>
    /\ everDeleted = FALSE
    /\ held = NoHeld
    /\ lastCall = Call("none", 0, NoRec)
    /\ sheets = NoSheets
    /\ chat = [k \in Keys |-> "unsent"]
    /\ pending = {}
    /\ archive = {}
    /\ google_available \in BOOLEAN
    /\ notify_on_edit = FALSE
    /\ events = 0
    /\ eh = EhIdle
    /\ dh = DhIdle
    /\ gone = [k \in Keys |-> "no"]
    /\ delLog = {}
    /\ now \in 0..1
    /\ audit = <<>>
    /\ next_backup_time = BACKUP_INTERVAL
    /\ loop = "sleep"
    /\ runs = [r \in Callers |-> RunIdle]
    /\ last = NoRec
    /\ nruns = 0
    /\ calm = TRUE

NextAuto == HandleBusinessMessage \/ TaskLands \/ TaskFails

SpecAuto == InitAuto /\ [][NextAuto]_vars

\* ------------------------------------------------------------ backup runs
\* everything a step of a backup run leaves alone
runFrame ==
    <<cache, lruVars, pending, google_available, notify_on_edit, chat, events,
      eh, dh, delLog>>

\* the clock advances
Tick ==
    /\ ~Returned
    /\ now < MaxTime
    /\ now' = now + 1
    /\ UNCHANGED <<runFrame, store, archive, gone, buffer, next_backup_time,
                   audit, loop, runs, last, nruns, calm>>

\* _backup_loop: the sleep is over (or wait_seconds <= 0); run_backup is called
LoopWake ==
    /\ ~Returned
    /\ loop = "sleep"
    /\ now >= next_backup_time
    /\ nruns < MaxRuns
    /\ loop' = "run"
    /\ runs' = [runs EXCEPT !.sched = RunBegin(runs, "sched", last, calm)]
    /\ nruns' = nruns + 1
    /\ calm' = (Active(runs) = {})
    /\ UNCHANGED <<runFrame, store, archive, gone, buffer, now,
                   next_backup_time, audit, last>>

\* backup_confirm_callback: result = await _storage_mgr.run_backup(is_manual=True)
ManualStart ==
    /\ ~Returned
    /\ runs.manual.pc = "idle"
    /\ nruns < MaxRuns
    /\ runs' = [runs EXCEPT !.manual = RunBegin(runs, "manual", last, calm)]
    /\ nruns' = nruns + 1
    /\ calm' = (Active(runs) = {})
    /\ UNCHANGED <<runFrame, store, archive, gone, buffer, now,
                   next_backup_time, audit, loop, last>>

\* all_messages = await asyncio.to_thread(self._get_all_messages): an exception
\* of the query gives []; nothing to do returns success with count 0;
\* otherwise the buffer is cleared
RunRead ==
    \E r \in Callers, ok \in BOOLEAN :
        /\ ~Returned
        /\ runs[r].pc = "read"
        /\ LET all_messages == IF ok THEN GetAllMessages(store) ELSE <<>>
               h == [runs[r] EXCEPT !.read = IF ok THEN "ok" ELSE "failed",
                                    !.faults = @ \/ ~ok]
           IN  IF all_messages = <<>>
               THEN /\ runs' = [runs EXCEPT ![r] =
                                   [h EXCEPT !.pc = "done",
                                             !.result = Result(TRUE, 0, None)]]
                    /\ buffer' = buffer
               ELSE /\ runs' = [runs EXCEPT ![r] =
                                   [h EXCEPT !.pc = "archive", !.msgs = all_messages]]
                    /\ buffer' = 0
        /\ UNCHANGED <<runFrame, store, archive, gone, now, next_backup_time,
                       audit, loop, last, nruns, calm>>

\* await asyncio.to_thread(self.google_logger.batch_insert, messages_to_backup)
RunArchive ==
    \E r \in Callers, ok \in BOOLEAN :
        /\ ~Returned
        /\ runs[r].pc = "archive"
        /\ LET rows == {ArchiveRow(runs[r].msgs[x]) : x \in 1..Len(runs[r].msgs)}
           IN  /\ archive' = IF ok THEN archive \cup rows ELSE archive
               /\ runs' = [runs EXCEPT ![r] =
                              [@ EXCEPT !.pc = AfterArchive(ok), !.i = 1,
                                        !.archived = IF ok THEN rows ELSE {},
                                        !.archFailed = ~ok,
                                        !.faults = @ \/ ~ok]]
        /\ UNCHANGED <<runFrame, store, gone, buffer, now, next_backup_time,
                       audit, loop, last, nruns, calm>>

\* one pass of the delete loop: await asyncio.to_thread(MessagesDB.delete, ...);
\* owner_id, chat_id and message_id of a row are never 0 or None here
RunDelete ==
    \E r \in Callers, ok \in BOOLEAN :
        /\ ~Returned
        /\ runs[r].pc = "delete"
        /\ runs[r].i <= Len(runs[r].msgs)
        /\ LET k == runs[r].msgs[runs[r].i].k
           IN  /\ store' = IF ok THEN StoreDelete(store, k) ELSE store
               /\ gone' = IF ok THEN [gone EXCEPT ![k] = "deleted"] ELSE gone
               /\ runs' = [runs EXCEPT ![r] =
                              [@ EXCEPT !.i = @ + 1, !.issued = @ + 1,
                                        !.okdel = IF ok THEN @ + 1 ELSE @,
                                        !.del = IF ok
                                                THEN @ \cup Range(RowsOf(store, k))
                                                ELSE @,
                                        !.faults = @ \/ ~ok]]
        /\ UNCHANGED <<runFrame, archive, buffer, now, next_backup_time, audit,
                       loop, last, nruns, calm>>

\* after the loop: BackupsDB.add(messages_count=len(messages_to_backup),
\* status="success"); the insert into the backups table is taken to succeed
RunRecordSuccess ==
    \E r \in Callers :
        /\ ~Returned
        /\ runs[r].pc = "delete"
        /\ runs[r].i > Len(runs[r].msgs)
        /\ LET n == Len(runs[r].msgs)
           IN  /\ audit' = BackupsAdd(audit, n, "success", None, now)
               /\ runs' = [runs EXCEPT ![r] =
                              [@ EXCEPT !.pc = "done",
                                        !.cycle = Cycle(n, "success", None, now),
                                        !.result = Result(TRUE, n, None)]]
        /\ UNCHANGED <<runFrame, store, archive, gone, buffer, now,
                       next_backup_time, loop, last, nruns, calm>>

\* except Exception as e: BackupsDB.add(messages_count=0, status="failed",
\* error_message=str(e)); return result
RunRecordFailed ==
    \E r \in Callers :
        /\ ~Returned
        /\ runs[r].pc = "except"
        /\ audit' = BackupsAdd(audit, 0, "failed", "error", now)
        /\ runs' = [runs EXCEPT ![r] =
                       [@ EXCEPT !.pc = "done",
                                 !.cycle = Cycle(0, "failed", "error", now),
                                 !.result = Result(FALSE, 0, "error")]]
        /\ UNCHANGED <<runFrame, store, archive, gone, buffer, now,
                       next_backup_time, loop, last, nruns, calm>>

\* a loop that counts the interval from the deadline it woke up for
TimerAfter_FromDeadline(r, t, nbt) == IF r = "sched" THEN nbt + BACKUP_INTERVAL ELSE nbt

\* a manager in which every caller sets the time of the next backup
TimerAfter_Reset(r, t, nbt) == t + BACKUP_INTERVAL

\* next_backup_time once run_backup has returned to its caller: _backup_loop
\* sets datetime.utcnow() + timedelta(hours=...), the other callers nothing
TimerAfter(r, t, nbt) == IF r = "sched" THEN t + BACKUP_INTERVAL ELSE nbt

\* the caller goes on; _backup_loop sets next_backup_time and loops, and ends
\* with an exception that leaves run_backup
RunFinish ==
    \E r \in Callers :
        /\ Ended(runs[r])
        /\ last' = Summary(runs[r], r)
        /\ runs' = [runs EXCEPT ![r] = RunIdle]
        /\ IF runs[r].pc = "done"
           THEN /\ loop' = IF r = "sched" THEN "sleep" ELSE loop
                /\ next_backup_time' = TimerAfter(r, now, next_backup_time)
           ELSE /\ loop' = IF r = "sched" THEN "dead" ELSE loop
                /\ next_backup_time' = next_backup_time
        /\ UNCHANGED <<runFrame, store, archive, gone, buffer, now, audit,
                       nruns, calm>>

\* The manager has started. The runs do not look at the direction of a message
\* or at the owner's settings: incoming messages, notifications off.
InitBackup ==
    /\ Init
    /\ ~notify_on_edit
    /\ \A k \in Keys : chat[k] # "out"

NextBackup ==
    \/ HandleBusinessMessage
    \/ TaskLands
    \/ TaskFails
    \/ Tick
    \/ LoopWake
    \/ ManualStart
    \/ RunRead
    \/ RunArchive
    \/ RunDelete
    \/ RunRecordSuccess
    \/ RunRecordFailed
    \/ RunFinish

SpecBackup == InitBackup /\ [][NextBackup]_vars

\* ------------------------------------------------ the scheduler after a start
\* how far back the cycles of earlier processes lie, in ticks
PastTime == 3

\* the rows earlier processes may have left in the backups table
PriorCycles ==
    {Cycle(1, "success", None, -t) : t \in 0..PastTime}
        \cup {Cycle(0, "failed", "error", -t) : t \in 0..PastTime}

\* the backups table at the start (time 0): no row, one row or two rows
PriorLogs ==
    {<<>>} \cup {<<c>> : c \in PriorCycles}
        \cup {<<c, d>> : c \in PriorCycles, d \in PriorCycles}

\* start() at time 0 with any of these tables; only incoming messages
InitSched ==
    /\ \E a \in {l \in PriorLogs : \A i \in 1..(Len(l) - 1) :
                                     l[i].timestamp <= l[i + 1].timestamp} :
        InitAll(a)
    /\ ~notify_on_edit
    /\ \A k \in Keys : chat[k] # "out"

NextSched ==
    \/ Tick
    \/ LoopWake
    \/ RunRead
    \/ RunArchive
    \/ RunDelete
    \/ RunRecordSuccess
    \/ RunRecordFailed
    \/ RunFinish

SpecSched == InitSched /\ [][NextSched]_vars

\* ------------------------------------------------------------- shutdown
\* the call of a worker thread that a run in progress awaits
Flight(h) ==
    IF h.pc = "delete" /\ h.i > Len(h.msgs) THEN "record" ELSE h.pc

\* self._backup_task.cancel() for the run_backup the loop is in: the await of
\* the run is cancelled and CancelledError, which is no Exception, leaves
\* run_backup and the loop; the call in the worker thread goes on
CancelTask(h) ==
    IF h.pc = "idle" THEN h ELSE [h EXCEPT !.pc = "orphan", !.flight = Flight(h)]

\* stop(): the task of the loop is cancelled, if it has not ended, and
\* run_backup(is_manual=True) is called
Stop ==
    /\ ~Returned
    /\ loop # "cancelled"
    /\ runs.stop.pc = "idle"
    /\ loop' = "cancelled"
    /\ runs' = [runs EXCEPT !.sched = CancelTask(runs.sched),
                            !.stop = RunBegin(runs, "stop", last, calm)]
    /\ nruns' = nruns + 1
    /\ calm' = (Active(runs) = {})
    /\ UNCHANGED <<runFrame, store, archive, gone, buffer, now,
                   next_backup_time, audit, last>>

\* the worker thread ends the call a cancelled run awaited: the call has
\* its effect (ok) or fails, and nobody takes its result
OrphanEnds ==
    \E ok \in BOOLEAN :
        /\ ~Returned
        /\ runs.sched.pc = "orphan"
        /\ LET h == runs.sched
               rows == {ArchiveRow(h.msgs[x]) : x \in 1..Len(h.msgs)}
           IN  /\ archive' = IF ok /\ h.flight = "archive"
                             THEN archive \cup rows ELSE archive
               /\ store' = IF ok /\ h.flight = "delete"
                           THEN StoreDelete(store, h.msgs[h.i].k) ELSE store
               /\ gone' = IF ok /\ h.flight = "delete"
                          THEN [gone EXCEPT ![h.msgs[h.i].k] = "deleted"] ELSE gone
               /\ audit' = IF ok /\ h.flight = "record"
                           THEN BackupsAdd(audit, Len(h.msgs), "success", None, now)
                           ELSE IF ok /\ h.flight = "except"
                           THEN BackupsAdd(audit, 0, "failed", "error", now)
                           ELSE audit
        /\ runs' = [runs EXCEPT !.sched = RunIdle]
        /\ UNCHANGED <<runFrame, buffer, now, next_backup_time, loop, last,
                       nruns, calm>>

NextStop ==
    \/ Tick
    \/ LoopWake
    \/ Stop
    \/ OrphanEnds
    \/ RunRead
    \/ RunArchive
    \/ RunDelete
    \/ RunRecordSuccess
    \/ RunRecordFailed
    \/ RunFinish

SpecStop == InitSched /\ [][NextStop]_vars

\* ------------------------------------------- edits while a cycle is running
\* the edit handler and the scheduled cycle on one event loop: every await of
\* run_backup lets the handler and the table writes it created run
NextOverlap ==
    \/ TaskLands
    \/ TaskFails
    \/ EditStart
    \/ EditLookup
    \/ EditDbGet
    \/ EditSend
    \/ EditApply
    \/ EditFinish
    \/ Tick
    \/ LoopWake
    \/ RunRead
    \/ RunArchive
    \/ RunDelete
    \/ RunRecordSuccess
    \/ RunRecordFailed
    \/ RunFinish

SpecOverlap == InitBackup /\ [][NextOverlap]_vars

\* ---------------------------------------------------- the log on its own
\* start(): init_sheet; what it raises is logged
DoInitSheet ==
    /\ ~sheets.started
    /\ \E fail \in SheetFailures \ {"append"} :
        sheets' = [EnsureSheetExists(sheets, SheetName(now), fail).s
                       EXCEPT !.started = TRUE]
    /\ UNCHANGED <<cache, touched, everDeleted, held, lastCall, handlerVars>>

\* batch_insert called by run_backup or log_deleted_messages with up to
\* MaxRows records (message ids 1, 2, ...) sent up to now
DoBatchInsert ==
    /\ sheets.started
    /\ sheets.call.n < MaxInserts
    /\ \E len \in 0..MaxRows : \E cs \in [1..len -> Contents] :
       \E ts \in [1..len -> 0..now] : \E fail \in SheetFailures :
        LET messages == [i \in 1..len |-> [k |-> i, d |-> Stored(cs[i], ts[i])]]
            r == BatchInsert(sheets, messages, now, fail)
        IN  sheets' = [r.s EXCEPT !.call = [n |-> sheets.call.n + 1,
                                            messages |-> messages, at |-> now,
                                            raised |-> r.raised]]
    /\ UNCHANGED <<cache, touched, everDeleted, held, lastCall, handlerVars>>

NextSheets ==
    \/ Tick
    \/ DoInitSheet
    \/ DoBatchInsert

SpecSheets == InitCache /\ [][NextSheets]_vars

\* -------------------------------------------------------- history query
\* attempts of fetch_sheet_data, and queries in one behaviour
RETRIES == 3
MaxQueries == 2

\* MessagesDB.get_by_chat(owner_id, chat_id, limit=100)
CHAT_LIMIT == 100

\* how one attempt to read a sheet ends
ScanOutcomes == {"ok", "throttled", "error"}

\* how the attempts to read one sheet end (attempts after the one that
\* ends the reading are not made: "ok" stands for them)
ScanRuns ==
    {<<"ok", "ok", "ok">>, <<"throttled", "ok", "ok">>,
     <<"throttled", "throttled", "throttled">>, <<"error", "ok", "ok">>}

\* "message_id": int(row[1]) if row[1].isdigit() else 0, as if no cell were
\* a number
FetchKey_NoDigits(row) == 0

\* "message_id": int(row[1]) if row[1].isdigit() else 0
FetchKey(row) == IF row.message_id[1] = "digits" THEN row.message_id[2] ELSE 0

\* final_msg of fetch_sheet_data for a row of this chat
FinalMsg(row) ==
    [k |-> FetchKey(row), source |-> "google_sheets",
     d |-> [content_type |-> row.content_type, message_text |-> row.content,
            timestamp |-> row.timestamp, is_outgoing |-> row.direction = "out",
            file_id |-> row.file_id]]

RECURSIVE FetchSheetData(_, _, _, _)
\* fetch_sheet_data(sheet_name) from attempt a on, outs[a] being how attempt
\* a ends: the rows below the first one; [] for a sheet that is not there,
\* for an error and after RETRIES throttled attempts
FetchSheetData(s, name, outs, a) ==
    IF a > RETRIES THEN [data |-> <<>>, attempts |-> RETRIES, failed |-> TRUE]
    ELSE IF outs[a] = "throttled" THEN FetchSheetData(s, name, outs, a + 1)
    ELSE IF outs[a] = "error" THEN [data |-> <<>>, attempts |-> a, failed |-> TRUE]
    ELSE IF name \notin s.exists \/ Len(s.rows[name]) < 2
    THEN [data |-> <<>>, attempts |-> a, failed |-> FALSE]
    ELSE [data |-> [i \in 1..(Len(s.rows[name]) - 1) |-> FinalMsg(s.rows[name][i + 1])],
          attempts |-> a, failed |-> FALSE]

\* to_check of fetch_logs: the sheets of the months up to the current one
\* (Sheet1, which the logger never writes, has no rows here)
ToCheck(t) == {m \in Months : m <= SheetName(t)}

RECURSIVE ScanFrom(_, _, _, _)
\* all_messages of fetch_logs: the results of the sheets m.. in their order
ScanFrom(s, t, outs, m) ==
    IF m \notin ToCheck(t) THEN <<>>
    ELSE FetchSheetData(s, m, outs[m], 1).data \o ScanFrom(s, t, outs, m + 1)

\* fetch_logs(owner_id, chat_id) at time t: [] when the spreadsheet cannot be
\* opened; the cached list when fresh says the entry is younger than 60
\* seconds; otherwise the scan, which is cached
FetchLogs(s, t, open, fresh, outs) ==
    IF ~open THEN [s |-> s, data |-> <<>>]
    ELSE IF s.logs_cache # NoRec /\ fresh THEN [s |-> s, data |-> s.logs_cache.data]
    ELSE LET all_messages == ScanFrom(s, t, outs, 0)
         IN  [s |-> [s EXCEPT !.logs_cache = [ts |-> t, data |-> all_messages]],
              data |-> all_messages]

\* MessagesDB.get_by_chat: the rows of the chat, the limit newest of them
GetByChat(st, limit) ==
    LET rows == Range(GetAllMessages(st))
        Newer(r, q) == r.d.timestamp > q.d.timestamp
                           \/ (r.d.timestamp = q.d.timestamp /\ r.k > q.k)
    IN  {r \in rows : Cardinality({q \in rows : Newer(q, r)}) < limit}

\* The merge of a history query by message id: the rows of the table, and of
\* the archived records those of a message id the table does not have, one
\* for each such id (the one scanned last).
HistoryMerge(live, archived) ==
    LET keys == {r.k : r \in live}
        lastOf(k) == CHOOSE i \in 1..Len(archived) :
                         /\ archived[i].k = k
                         /\ \A j \in (i + 1)..Len(archived) : archived[j].k # k
    IN  {[k |-> r.k, d |-> r.d, source |-> "supabase"] : r \in live}
            \cup {archived[lastOf(k)] :
                      k \in {archived[i].k : i \in 1..Len(archived)} \ keys}

\* In a behaviour of the history queries the messages are sent in the first
\* tick and the writes come before the queries.
Writing == sheets.query = NoRec

\* MessagesDB.add of the next message of the chat (ids ascend) and
\* MessagesDB.update called with a new text, as they land
DoStoreAdd ==
    /\ Writing
    /\ now = 0
    /\ \E k \in Keys :
        /\ ~Live(store, k)
        /\ gone[k] = "no"
        /\ \A j \in 1..(k - 1) : Live(store, j) \/ gone[j] # "no"
        /\ store' = StoreInsert(store, k, Stored(TextContent("a"), now))
    /\ UNCHANGED <<cache, lruVars, pending, archive, google_available,
                   notify_on_edit, chat, events, eh, dh, gone, delLog, buffer,
                   backupVars, calm>>

DoStoreUpdate ==
    /\ Writing
    /\ \E k \in Keys :
        /\ Live(store, k)
        /\ StoreGet(store, k).message_text # "b"
        /\ store' = StoreUpdate(store, k, [message_text |-> "b"])
    /\ UNCHANGED <<cache, lruVars, pending, archive, google_available,
                   notify_on_edit, chat, events, eh, dh, gone, delLog, buffer,
                   backupVars, calm>>

\* MessagesDB.delete, as it lands
DoStoreDelete ==
    /\ Writing
    /\ \E k \in Keys :
        /\ Live(store, k)
        /\ store' = StoreDelete(store, k)
        /\ gone' = [gone EXCEPT ![k] = "deleted"]
    /\ UNCHANGED <<cache, lruVars, pending, archive, google_available,
                   notify_on_edit, chat, events, eh, dh, delLog, buffer,
                   backupVars, calm>>

\* batch_insert of the rows of the table (run_backup before its deletes)
DoArchiveLive ==
    /\ Writing
    /\ sheets.started
    /\ sheets.call.n < MaxInserts
    /\ GetAllMessages(store) # <<>>
    /\ \E fail \in SheetFailures :
        LET messages == GetAllMessages(store)
            r == BatchInsert(sheets, messages, now, fail)
        IN  sheets' = [r.s EXCEPT !.call = [n |-> sheets.call.n + 1,
                                            messages |-> messages, at |-> now,
                                            raised |-> r.raised]]
    /\ UNCHANGED <<cache, touched, everDeleted, held, lastCall, handlerVars>>

\* history: the sheets with records that a scan at time t gave up on after
\* RETRIES throttled attempts
GivenUp(s, t, outs) ==
    {m \in ToCheck(t) : /\ Len(s.rows[m]) >= 2
                        /\ \A a \in 1..RETRIES : outs[m][a] = "throttled"}

\* A history query of the chat: get_by_chat (which may raise), fetch_logs
\* (the spreadsheet may fail to open, the cached list is used when it is
\* younger than 60 seconds, less than a tick), and the merge.
DoHistoryQuery ==
    /\ sheets.started
    /\ (IF sheets.query = NoRec THEN 0 ELSE sheets.query.n) < MaxQueries
    /\ \E how \in {"raises", "closed", "cached", "scan"} :
       \E outs \in [Months -> ScanRuns] :
        LET n == IF sheets.query = NoRec THEN 1 ELSE sheets.query.n + 1
            live == GetByChat(store, CHAT_LIMIT)
            f == FetchLogs(sheets, now, how # "closed", how = "cached", outs)
        IN  /\ how # "scan" => \A m \in Months : outs[m] = <<"ok", "ok", "ok">>
            /\ \A m \in Months \ ToCheck(now) : outs[m] = <<"ok", "ok", "ok">>
            /\ how = "cached" => sheets.logs_cache # NoRec /\ sheets.logs_cache.ts = now
            /\ sheets' =
                IF how = "raises"
                THEN [sheets EXCEPT !.query = [n |-> n, raised |-> TRUE,
                                               archived |-> <<>>, answer |-> {},
                                               lost |-> {}]]
                ELSE [f.s EXCEPT !.query = [n |-> n, raised |-> FALSE,
                                            archived |-> f.data,
                                            answer |-> HistoryMerge(live, f.data),
                                            lost |-> IF how = "scan"
                                                     THEN GivenUp(sheets, now, outs)
                                                     ELSE {}]]
    /\ UNCHANGED <<cache, touched, everDeleted, held, lastCall, handlerVars>>

NextHistory ==
    \/ Tick
    \/ DoInitSheet
    \/ DoStoreAdd
    \/ DoStoreUpdate
    \/ DoStoreDelete
    \/ DoArchiveLive
    \/ DoHistoryQuery

SpecHistory == InitCache /\ [][NextHistory]_vars

\* ------------------------------------------------------------------ C1
\* C1 (as stated): the resident keys are the max_size most recently touched
\* keys among those set and not since deleted.
C1_ResidentIsNMostRecent ==
    CacheKeySet(cache) = Range(LastN(touched, max_size))

\* C1 (amended): the size never exceeds max_size; the resident keys are the
\* Len(cache) most recently touched keys among those set and not since
\* deleted, in touch order (so every eviction took the least recently touched
\* resident key); and as long as no delete was called the cache holds
\* min(max_size, number of keys set) of them.
C1_LruResident ==
    /\ Len(cache) <= max_size
    /\ [i \in 1..Len(cache) |-> cache[i].k] = LastN(touched, Len(cache))
    /\ ~everDeleted => Len(cache) = Min(max_size, Len(touched))

\* no delete so far: a set has made the size exceed max_size and the least
\* recently touched key is the one that has left the cache
C1_Witness ==
    /\ ~everDeleted
    /\ Len(cache) = max_size
    /\ Len(touched) > max_size
    /\ cache[1].k < touched[1]

\* ------------------------------------------------------------------ C2
\* C2: in a backup run no Durable Store delete is issued after a failed archive
\* write; every record a run has removed from the table is a record that a
\* batch_insert of the same run has written before.
C2_ArchiveBeforeDelete ==
    \A r \in Callers :
        /\ runs[r].archFailed => runs[r].issued = 0
        /\ runs[r].issued > 0 => runs[r].archived # {}
        /\ {m.k : m \in runs[r].del} \subseteq {m.k : m \in runs[r].archived}

\* a run whose archive write failed has returned, and another run has removed
\* rows it had archived
C2_Witness ==
    /\ \E r \in Callers : runs[r].pc = "done" /\ runs[r].archFailed
    /\ \E r \in Callers : runs[r].del # {}

\* ------------------------------------------------------------------ C3
\* C3 (as stated): every table delete of the deletion flow that removed a row was
\* preceded by an archive write of that record by the same flow.
C3_FlowDeletesOnlyArchived == delLog \subseteq {"archived"}

C5_SecondRunEmpty ==
    \A r \in Callers :
        (/\ runs[r].pc = "done" /\ runs[r].after = "quiet" /\ calm
         /\ ~runs[r].faults
         /\ last # NoRec /\ last.result.success /\ last.result.count > 0) =>
            /\ runs[r].result = Result(TRUE, 0, None)
            /\ runs[r].msgs = <<>>
            /\ runs[r].issued = 0

\* ------------------------------------------------------------------ C6
\* C6: once the delete of a key has landed in the table, the table has no row
\* of that key, whether the update of an edit lands before it or after it
\* (until the key is inserted again).
C6_DeleteWins == \A k \in Keys : gone[k] # "no" => store[k] = <<>>

\* the update of the edit has landed after the delete
C6_Witness == \E k \in Keys : gone[k] = "deleted_then_updated" /\ store[k] = <<>>

\* ------------------------------------------------------------------ C7
\* C7 (as stated): when the edit handler returns from an edit it has applied,
\* the cache holds the new text, content type and extra data under the key.
C7_CacheFreshOnReturn ==
    (eh.pc = "done" /\ eh.res = "applied" /\ dh.pc = "idle")
        => CacheFresh(cache, eh.k, eh.new)

\* ------------------------------------------------------------------ C8
\* C8 (as stated): an outgoing edit with the preference off and a snapshot
\* found sends no notification, and the handler returns with the update of the
\* record issued (and the cached record, if there is one, holding the new
\* content).
C8_SuppressedStillUpdates ==
    (/\ eh.pc = "done" /\ eh.out /\ ~eh.notify /\ eh.stored # NoRec
     /\ ~SameContent(eh.stored, eh.new)) =>
        /\ eh.sent = 0
        /\ eh.wrote
        /\ eh.cached /\ dh.pc = "idle" => CacheFresh(cache, eh.k, eh.new)

\* ------------------------------------------------------------------ C9
\* C9 (as stated): an edit equal to the snapshot in content type, normalized
\* text and file id sends no notification, leaves the cache as it was and
\* creates no table write.
C9_NoopLeavesCacheAlone ==
    (eh.pc = "done" /\ eh.stored # NoRec /\ SameContent(eh.stored, eh.new)) =>
        eh.sent = 0 /\ ~eh.moved /\ ~eh.wrote

\* C9 (amended): such an edit sends no notification, leaves every record of
\* the cache as it was (the lookup may move the key to the most recently used
\* end) and creates no table write.
C9_NoopLeavesRecordsAlone ==
    (eh.pc = "done" /\ eh.stored # NoRec /\ SameContent(eh.stored, eh.new)) =>
        eh.sent = 0 /\ ~eh.dirty /\ ~eh.wrote

\* an incoming edit equal to the cached snapshot has returned as a no-op, and
\* its lookup has changed the order of the cache
C9_Witness ==
    /\ eh.pc = "done" /\ eh.res = "noop" /\ eh.cached /\ eh.moved
    /\ SameContent(eh.stored, eh.new)

\* ------------------------------------------------------------------ C10
\* C10: the table is asked only after the cache missed; when neither has the
\* key the handler returns without a notification, with the cache as it was
\* and without the key, and without a table write.
C10_CacheFirstThenStore ==
    /\ eh.pc = "dbget" => ~eh.cached
    /\ eh.dbread => ~eh.cached
    /\ (eh.pc = "done" /\ eh.res = "notfound") =>
          /\ eh.dbread
          /\ eh.sent = 0
          /\ ~eh.moved
          /\ ~eh.wrote
          /\ ~CacheHas(cache, eh.k)

\* the handler has returned from an event whose key was in neither
C10_Witness == eh.pc = "done" /\ eh.res = "notfound" /\ eh.stored = NoRec

\* the primary notifications among the messages a handler sent
Primary(emitted) == {i \in 1..Len(emitted) : emitted[i].primary}

\* C11: an edit with at least one delta that reaches the rendering is rendered
\* in exactly one form, chosen in this order: media-only when (type_changed
\* or media_changed) and not text_changed, caption edit when text_changed and
\* the new content type is not text, plain text edit when text_changed and
\* the new content type is text; nothing is left for a fallback, and exactly
\* one primary notification text is emitted.
C11_OneRenderingCase ==
    (eh.pc = "apply" \/ (eh.pc = "done" /\ eh.res = "applied")) =>
        LET type_changed == TypeChanged(eh.stored, eh.new)
            text_changed == TextChanged(eh.stored, eh.new)
            media_changed == MediaChanged(eh.stored, eh.new)
            a == (type_changed \/ media_changed) /\ ~text_changed
            b == ~a /\ text_changed /\ eh.new.content_type # "text"
            c == ~a /\ ~b /\ text_changed /\ eh.new.content_type = "text"
            forms == {eh.emitted[i].form : i \in Primary(eh.emitted)}
        IN  /\ type_changed \/ text_changed \/ media_changed
            /\ Cardinality(Primary(eh.emitted)) = 1
            /\ eh.emitted[1].primary
            /\ a <=> forms = {"media"}
            /\ b <=> forms = {"caption"}
            /\ c <=> forms = {"text"}
            /\ a \/ b \/ c

\* an edit that changes both the type and the text has been rendered
C11_Witness ==
    /\ eh.pc = "apply"
    /\ TypeChanged(eh.stored, eh.new)
    /\ TextChanged(eh.stored, eh.new)
    /\ Cardinality(Primary(eh.emitted)) = 1

\* ---- the batch of a deletion event, described without the pass
\* the pass over deleted_messages is over
Passed(h) == h.pc \in {"delete_cache", "delete_db", "done"}

IsSticker(h, x) == h.acc[x].d.content_type = "sticker"
IsText(h, x) == h.acc[x].d.content_type = "text"
Fid(h, x) == extract_file_id(h.acc[x].d.extra_data)

\* x and y are stickers with the same non-empty fingerprint
Alike(h, x, y) ==
    IsSticker(h, x) /\ IsSticker(h, y) /\ Fid(h, x) # None /\ Fid(h, x) = Fid(h, y)

\* positions p..q are a maximal run of consecutive like stickers
StickerRun(h, p, q) ==
    /\ \A x \in p..q : Alike(h, p, x)
    /\ p = 1 \/ ~Alike(h, p - 1, p)
    /\ q = Len(h.acc) \/ ~Alike(h, q, q + 1)

\* positions p..q are a maximal run of consecutive texts
TextRun(h, p, q) ==
    /\ \A x \in p..q : IsText(h, x)
    /\ p = 1 \/ ~IsText(h, p - 1)
    /\ q = Len(h.acc) \/ ~IsText(h, q + 1)

\* the ids of the records at positions p..q
IdsOf(h, p, q) == [x \in 1..(q - p + 1) |-> h.acc[p + x - 1].k]

\* the messages that stand for a record at one of the positions p..q
About(h, p, q) ==
    {j \in 1..Len(h.emitted) :
        \E x \in p..q : h.acc[x].k \in Range(h.emitted[j].src)}

AllSent(h) == \A j \in 1..Len(h.emitted) : h.emitted[j].ok

\* C12: when the pass is over and every send succeeded, each maximal run of
\* k consecutive stickers with the same non-empty fingerprint has produced,
\* for k > 1, exactly one collapsed notification with the count k followed by
\* exactly one media send of the sticker, and for k = 1 exactly one
\* single-item notification; the batch [A, A, A, text, B] has produced the
\* group of A with count 3 and its one sticker, the single text, the single
\* B, in that order, and nothing else.
C12_StickerRunsCollapsed ==
    Passed(dh) /\ AllSent(dh) =>
        /\ \A p \in 1..Len(dh.acc) : \A q \in p..Len(dh.acc) :
             StickerRun(dh, p, q) =>
                \E j \in 1..Len(dh.emitted) :
                    IF q > p
                    THEN /\ About(dh, p, q) = {j, j + 1}
                         /\ dh.emitted[j].kind = "group"
                         /\ dh.emitted[j].count = q - p + 1
                         /\ dh.emitted[j].src = IdsOf(dh, p, q)
                         /\ dh.emitted[j + 1].kind = "single"
                         /\ dh.emitted[j + 1].file = Fid(dh, p)
                    ELSE /\ About(dh, p, q) = {j}
                         /\ dh.emitted[j].kind = "single"
                         /\ dh.emitted[j].src = <<dh.acc[p].k>>
                         /\ dh.emitted[j].file = Fid(dh, p)
        /\ [x \in 1..Len(dh.acc) |-> <<dh.acc[x].d.content_type, Fid(dh, x)>>]
                = << <<"sticker", "A">>, <<"sticker", "A">>, <<"sticker", "A">>,
                     <<"text", None>>, <<"sticker", "B">> >>
             => [j \in 1..Len(dh.emitted) |->
                    <<dh.emitted[j].kind, dh.emitted[j].count, dh.emitted[j].file>>]
                = << <<"group", 3, None>>, <<"single", 1, "A">>,
                     <<"single", 1, None>>, <<"single", 1, "B">> >>

\* the batch [A, A, A, text, B] has been through the pass
C12_Witness ==
    /\ Passed(dh)
    /\ AllSent(dh)
    /\ Len(dh.acc) = 5
    /\ StickerRun(dh, 1, 3) /\ Fid(dh, 1) = "A"
    /\ IsText(dh, 4)
    /\ StickerRun(dh, 5, 5) /\ Fid(dh, 5) = "B"
    /\ \E j \in 1..Len(dh.emitted) : dh.emitted[j].kind = "group"

\* C13: when the pass is over and every send succeeded, each maximal run of
\* k consecutive text records has produced, for k > 1, exactly one summary
\* with k entries in the order of the batch, each with the time and the text
\* of its own record, and for k = 1 exactly one single notification; five
\* consecutive texts produce one summary of five entries and nothing else.
C13_TextRunsSummarised ==
    Passed(dh) /\ AllSent(dh) =>
        /\ \A p \in 1..Len(dh.acc) : \A q \in p..Len(dh.acc) :
             TextRun(dh, p, q) =>
                \E j \in 1..Len(dh.emitted) :
                    /\ About(dh, p, q) = {j}
                    /\ dh.emitted[j].src = IdsOf(dh, p, q)
                    /\ IF q > p
                       THEN /\ dh.emitted[j].kind = "summary"
                            /\ dh.emitted[j].count = q - p + 1
                            /\ Len(dh.emitted[j].entries) = q - p + 1
                            /\ \A x \in 1..(q - p + 1) :
                                 LET e == dh.emitted[j].entries[x]
                                     d == dh.acc[p + x - 1].d
                                 IN  /\ e.n = x
                                     /\ e.time = get_time_str(d.timestamp)
                                     /\ e.text = escape(OrNoText(d.message_text))
                       ELSE /\ dh.emitted[j].kind = "single"
                            /\ dh.emitted[j].time = get_full_date_str(dh.acc[p].d.timestamp)
                            /\ dh.emitted[j].text = OrEmpty(dh.acc[p].d.message_text)
        /\ Len(dh.acc) = 5 /\ TextRun(dh, 1, 5)
             => Len(dh.emitted) = 1 /\ Len(dh.emitted[1].entries) = 5

\* five consecutive texts, not all the same, have been through the pass
C13_Witness ==
    /\ Passed(dh)
    /\ AllSent(dh)
    /\ Len(dh.acc) = 5
    /\ TextRun(dh, 1, 5)
    /\ dh.acc[1].d.message_text # dh.acc[2].d.message_text
    /\ Len(dh.emitted) = 1

\* the first and the last message that stands for the record at position x
FirstAbout(h, x) == CHOOSE j \in About(h, x, x) : \A i \in About(h, x, x) : j <= i
LastAbout(h, x) == CHOOSE j \in About(h, x, x) : \A i \in About(h, x, x) : i <= j

\* C14: when the pass is over, whatever sends failed, every record of the
\* batch has a message; if record x precedes record y, the first message for
\* x is not sent after the first message for y, and the messages of two
\* different units do not interleave; inside a message the records and the
\* entries are in the order of the batch.
C14_BatchOrderKept ==
    Passed(dh) =>
        /\ \A x \in 1..Len(dh.acc) : About(dh, x, x) # {}
        /\ \A x \in 1..Len(dh.acc) : \A y \in (x + 1)..Len(dh.acc) :
             /\ FirstAbout(dh, x) <= FirstAbout(dh, y)
             /\ FirstAbout(dh, x) < FirstAbout(dh, y) => LastAbout(dh, x) < FirstAbout(dh, y)
        /\ \A j \in 1..Len(dh.emitted) :
             LET src == dh.emitted[j].src
                 ent == dh.emitted[j].entries
             IN  /\ \A a \in 1..Len(src) : \A b \in (a + 1)..Len(src) :
                      \E x \in 1..Len(dh.acc) : \E y \in (x + 1)..Len(dh.acc) :
                          dh.acc[x].k = src[a] /\ dh.acc[y].k = src[b]
                 /\ \A a \in 1..Len(ent) :
                      ent[a].time = get_time_str(dh.acc[CHOOSE x \in 1..Len(dh.acc) :
                                                        dh.acc[x].k = src[a]].d.timestamp)

\* a batch that mixes a text run, a sticker run and another type has been
\* through the pass
C14_Witness ==
    /\ Passed(dh)
    /\ Len(dh.acc) = 5
    /\ TextRun(dh, 1, 2)
    /\ StickerRun(dh, 3, 4)
    /\ dh.acc[5].d.content_type = "photo"
    /\ Len(dh.emitted) = 4

C16_ManualKeepsTimer ==
    [][runs'.manual # runs.manual => next_backup_time' = next_backup_time]_vars

\* a manual run has returned, successful or failed, at a time at which a
\* reset of the timer would have moved it
C16_Witness ==
    /\ last # NoRec
    /\ last.caller = "manual"
    /\ last.msgs # <<>>
    /\ runs.manual.pc = "idle"
    /\ next_backup_time # now + BACKUP_INTERVAL

C18_RollingFromCompletion ==
    [][/\ (runs.sched.pc = "idle" /\ runs'.sched.pc # "idle")
            => now >= next_backup_time
       /\ (runs.sched.pc # "idle" /\ runs'.sched.pc = "idle")
            => /\ next_backup_time' = now + BACKUP_INTERVAL
               /\ next_backup_time' > now
       /\ nruns' <= 1 + (now' \div BACKUP_INTERVAL)]_vars

\* after a start that found the deadline missed, a scheduled cycle whose
\* archive write failed has returned
C18_Witness ==
    /\ audit # <<>>
    /\ audit[1].status = "success"
    /\ audit[1].timestamp + BACKUP_INTERVAL < 0
    /\ last # NoRec
    /\ last.caller = "sched"
    /\ ~last.result.success
    /\ last.archFailed
    /\ runs.sched.pc = "idle"
    /\ now > 0
    /\ next_backup_time = now + BACKUP_INTERVAL

C20_EmptyRunRecorded ==
    \A r \in Callers :
        runs[r].pc = "done" /\ runs[r].read = "ok" /\ runs[r].msgs = <<>> =>
            /\ runs[r].result = Result(TRUE, 0, None)
            /\ runs[r].archived = {}
            /\ runs[r].issued = 0
            /\ runs[r].cycle # NoRec
            /\ runs[r].cycle.status = "success"
            /\ runs[r].cycle.messages_count = 0
            /\ \E i \in 1..Len(audit) : audit[i] = runs[r].cycle

\* C21 (as stated): the cycle a run records after its delete loop carries as
\* its count the number of records whose MessagesDB.delete succeeded in that
\* run, and has status success only if every delete of the run succeeded.
C21_CountIsDeleted ==
    \A r \in Callers :
        runs[r].pc = "done" /\ runs[r].cycle # NoRec /\ ~runs[r].archFailed =>
            /\ runs[r].cycle.messages_count = runs[r].okdel
            /\ runs[r].cycle.status = "success" => runs[r].okdel = runs[r].issued

\* C22 (as stated): the table never holds more than one row of a key, also
\* when the created event of a message is handled more than once.
C22_OneRowPerKey == \A k \in DOMAIN store : Len(store[k]) <= 1

\* C23 (as stated): once a run has archived a record and deleted its row
\* from the table, a lookup of its key in the cache returns nothing.
C23_ArchivedLeavesCache ==
    \A r \in Callers :
        runs[r].pc = "done" =>
            \A m \in runs[r].del :
                ArchiveRow(m) \in runs[r].archived => CacheLookup(cache, m.k) = NoRec

C25_GetReturnsCopy ==
    [][/\ (held'.dirty /\ held' # held) => cache' = cache
       /\ (~held'.dirty /\ held' # held) =>
             /\ held'.d = CacheLookup(cache, held'.k)
             /\ CacheLookup(cache', held'.k) = held'.d
             /\ CacheMap(cache') = CacheMap(cache)]_vars

\* the caller has changed a field of the record it got, and the cache still
\* holds the fields that get returned
C25_Witness ==
    /\ held.dirty
    /\ held.d # held.got
    /\ CacheLookup(cache, held.k) = held.got

\* C26: a call of update for a key that is not in the cache leaves the cache
\* exactly as it was (no entry for the key, the same records, the same
\* recency order, the same size); for a resident key it leaves the set of
\* keys and the size as they were, gives the fields passed their new values,
\* keeps the other fields of that entry and the content of every other entry.
C26_UpdateFrame ==
    [][lastCall'.op = "update" =>
          LET k == lastCall'.k
              f == lastCall'.f
          IN  IF ~CacheHas(cache, k)
              THEN /\ cache' = cache
                   /\ ~CacheHas(cache', k)
              ELSE /\ CacheKeySet(cache') = CacheKeySet(cache)
                   /\ Len(cache') = Len(cache)
                   /\ \A j \in CacheKeySet(cache) \ {k} :
                         CacheData(cache', j) = CacheData(cache, j)
                   /\ DOMAIN CacheData(cache', k) = DOMAIN CacheData(cache, k) \cup DOMAIN f
                   /\ \A x \in DOMAIN f : CacheData(cache', k)[x] = f[x]
                   /\ \A x \in DOMAIN CacheData(cache, k) \ DOMAIN f :
                         CacheData(cache', k)[x] = CacheData(cache, k)[x]]_vars

\* update has just been called for a key that is not in the full cache
C26_Witness ==
    /\ lastCall.op = "update"
    /\ ~CacheHas(cache, lastCall.k)
    /\ Len(cache) = max_size

\* the plain texts sent for the record at position x alone
TextsAbout(h, x) ==
    {j \in About(h, x, x) :
        h.emitted[j].kind = "single" /\ h.emitted[j].file = None}

\* the media sends for the record at position x that failed
FailedMedia(h, x) ==
    {j \in About(h, x, x) : h.emitted[j].file # None /\ ~h.emitted[j].ok}

\* C27 (as stated): when the pass is over, every record whose media send
\* failed has got exactly one plain-text notification, whatever its content
\* type, and every record of the batch has got a message.
C27_OneFallback ==
    Passed(dh) =>
        /\ \A x \in 1..Len(dh.acc) :
              FailedMedia(dh, x) # {} => Cardinality(TextsAbout(dh, x)) = 1
        /\ \A x \in 1..Len(dh.acc) : About(dh, x, x) # {}

\* C28 (as stated): no handler of a create, edit or delete event is left by
\* the exception of a failing call of MessagesDB (insert, get, update,
\* delete): the error is swallowed and the handler goes on.
C28_StoreFailuresSwallowed ==
    /\ ~(eh.pc = "done" /\ eh.res = "raised")
    /\ ~(dh.pc = "done" /\ dh.raised)

\* ------------------------------------------------------------------ C29
\* the rows of a sheet that are records
DataRows(n) == {sheets.rows[n][i] : i \in {j \in 1..Len(sheets.rows[n]) : ~sheets.rows[n][j].head}}

\* C29 (as stated): every record of the log is in the sheet of the month of
\* its own timestamp.
C29_PartitionOfRecordMonth ==
    \A n \in Months : \A r \in DataRows(n) : SheetName(r.timestamp) = n

\* C29 (amended): a call of batch_insert that returns has appended the rows
\* of all its records, in their order, to the sheet of the month in which
\* it was called, whatever their timestamps, having created that sheet with
\* the row of headers if the spreadsheet did not have it; a call that raises
\* has appended no record, and has at most created that sheet, with or
\* without its row of headers; no call changes another sheet.
C29_PartitionOfWriteMonth ==
    [][sheets'.call.n = sheets.call.n + 1 =>
        LET c == sheets'.call
            name == SheetName(now)
            before == IF name \in sheets.exists THEN sheets.rows[name]
                      ELSE <<HeaderRow>>
        IN  /\ \A m \in Months \ {name} :
                /\ sheets'.rows[m] = sheets.rows[m]
                /\ m \in sheets'.exists <=> m \in sheets.exists
            /\ (~c.raised /\ c.messages # <<>>) =>
                /\ name \in sheets'.exists
                /\ sheets'.rows[name] = before \o RowsToAdd(c.messages)
            /\ c.messages = <<>> => ~c.raised /\ sheets'.rows = sheets.rows
                                    /\ sheets'.exists = sheets.exists
            /\ c.raised =>
                /\ sheets.exists \subseteq sheets'.exists
                /\ sheets'.rows[name] \in
                       IF name \in sheets.exists THEN {sheets.rows[name]}
                       ELSE {<<>>, <<HeaderRow>>}]_vars

\* a call has written records of two months, one of them of an earlier
\* month than the call's, into a sheet it had to create
C29_Witness ==
    LET c == sheets.call
        name == SheetName(c.at)
    IN  /\ c.n > 0
        /\ ~c.raised
        /\ Len(c.messages) = 2
        /\ SheetName(c.messages[1].d.timestamp) # SheetName(c.messages[2].d.timestamp)
        /\ Len(sheets.rows[name]) = 3
        /\ sheets.rows[name][1] = HeaderRow
        /\ \A m \in Months \ {name} : DataRows(m) = {}

\* ------------------------------------------------------------------ C30
\* C30 (as stated): once stop() has cancelled the loop no scheduled cycle
\* starts, and while the final run that stop() has called is in progress
\* nothing is written to the table, the log or the backups table except by
\* the final run itself: no call of a cycle of the cancelled loop is still
\* being executed.
C30_FinalRunAlone ==
    [][/\ (loop = "cancelled" /\ runs.sched.pc = "idle") => runs'.sched.pc = "idle"
       /\ (runs.stop.pc # "idle" /\ runs'.stop = runs.stop) =>
              <<store, archive, audit>>' = <<store, archive, audit>>]_vars

\* ------------------------------------------------------------------ C31
\* the message ids of the rows of the table, and of the records a query got
\* from the log
LiveIds == {k \in Keys : Live(store, k)}
ArchivedIds(q) == {q.archived[i].k : i \in 1..Len(q.archived)}

\* the message ids batch_insert has written to the log
WrittenIds ==
    UNION {{sheets.rows[m][i].message_id[2] :
                i \in {j \in 1..Len(sheets.rows[m]) : ~sheets.rows[m][j].head}} :
           m \in Months}

OneOpen(h) == h.text_buffer = <<>> \/ h.current_sticker_count = 0

\* the locals at the await inside the iteration for record m, after the
\* flush that begins it
AfterFirstFlush(h, m) ==
    IF m.d.content_type = "sticker" THEN TextsBeforeSticker(h, TRUE)
    ELSE FlushStickerGroup(h, TRUE, TRUE)

\* the loop and the flushes after it are over
PassOver == dh.pc \in {"delete_cache", "delete_db", "done"}

\* C32 (as stated): during the pass the text buffer and the sticker group
\* are never both non-empty, and both are empty when the pass is over.
C32_BothEmptyAtEnd ==
    /\ dh.pc = "render" => OneOpen(dh)
    /\ PassOver => dh.text_buffer = <<>> /\ dh.current_sticker_count = 0

\* C32 (amended): during the pass, between the iterations and at the awaits
\* inside them, the text buffer and the sticker group are never both
\* non-empty; when the pass is over the sticker group is empty, and the text
\* buffer holds the texts of the last run, all of them sent in the last
\* notification, or nothing.
C32_OneRunOpen ==
    /\ dh.pc = "render" =>
        /\ OneOpen(dh)
        /\ dh.i <= Len(dh.acc) => OneOpen(AfterFirstFlush(dh, dh.acc[dh.i]))
    /\ PassOver =>
        /\ dh.current_sticker_count = 0
        /\ dh.current_sticker_id = None
        /\ dh.current_sticker_sample = NoRec
        /\ dh.text_buffer # <<>> =>
            /\ dh.emitted # <<>>
            /\ dh.emitted[Len(dh.emitted)].src
                   = [i \in 1..Len(dh.text_buffer) |-> dh.text_buffer[i].k]

\* a pass that collapsed a sticker group and ended with a run of two texts
C32_Witness ==
    /\ PassOver
    /\ Len(dh.text_buffer) = 2
    /\ \E i \in 1..Len(dh.emitted) : dh.emitted[i].kind = "group"

\* ------------------------------------------------------------------ C33
\* the handler has compared the snapshot it found with the event
Compared == eh.stored # NoRec /\ eh.res # "suppressed"
Rendered == eh.pc = "apply" \/ (eh.pc = "done" /\ eh.res = "applied")

\* both file ids are there and differ
BothAndDiffer(stored, new) ==
    LET old == extract_file_id(stored.extra_data)
        nw == extract_file_id(new.extra_data)
    IN  old # None /\ nw # None /\ old # nw

\* C33: with type and text unchanged an edit is a no-op unless both the
\* snapshot and the event carry a file id and the two differ, and is then
\* rendered as a change of the media; with the text changed the comparison
\* of the old and the new media is sent in that case only. A file id absent
\* on either side never counts as a change of the media.
C33_MediaChanged ==
    Compared =>
        LET both == BothAndDiffer(eh.stored, eh.new)
            same == ~TypeChanged(eh.stored, eh.new) /\ ~TextChanged(eh.stored, eh.new)
            inline == \E i \in 1..Len(eh.emitted) : eh.emitted[i].kind = "media"
        IN  /\ (eh.pc = "done" /\ eh.res = "noop") <=> (eh.pc = "done" /\ same /\ ~both)
            /\ (Rendered /\ same) => both /\ eh.emitted[1].form = "media"
            /\ (Rendered /\ TextChanged(eh.stored, eh.new)) => (inline <=> both)

\* the snapshot of a photo has no file id, the event is the same photo with
\* a file: the handler has returned without a notification
C33_Witness ==
    /\ eh.pc = "done"
    /\ eh.res = "noop"
    /\ eh.stored # NoRec
    /\ eh.stored.content_type = "photo"
    /\ extract_file_id(eh.stored.extra_data) = None
    /\ extract_file_id(eh.new.extra_data) # None

\* ------------------------------------------------------------------ C34
\* C34 (as stated): a history query whose scan of a sheet was throttled in
\* all its attempts does not return as if the sheet were empty: the failure
\* reaches the caller.
C34_ThrottlingSurfaced ==
    sheets.query # NoRec => (sheets.query.lost # {} => sheets.query.raised)

\* ------------------------------------------------------------------ C35
\* the calls of run_backup that are being executed, and the rows a call has
\* read
Executing == {r \in Callers : runs[r].pc \notin {"idle", "done", "raised"}}

Held(r) == Range(runs[r].msgs)

\* C35 (as stated): at most one call of run_backup is being executed at a
\* time, whoever called it, and no row of the table has been read by two calls
\* that are being executed together.
C35_OneRunAtATime ==
    /\ Cardinality(Executing) <= 1
    /\ \A r1 \in Executing : \A r2 \in Executing \ {r1} : Held(r1) \cap Held(r2) = {}

\* ------------------------------------------------------------------ C36
\* C36 (as stated): every row a backup run has deleted from the table had, when
\* it was deleted, the content of a row that run wrote to the log; an edit
\* whose update reached the table after the run's read is in the log or still
\* in the table.
C36_DeletedAsArchived ==
    \A r \in Callers : runs[r].del \subseteq runs[r].archived

\* ------------------------------------------------------------------ C37
\* C37 (as stated): a message is created and then deleted; in whichever order
\* its insert and the delete of its key land in the table, no row of the key
\* is in the table once both have landed: after the delete has landed no
\* step, a late landing of the insert included, leaves a row of the key.
C37_AbsentOnceBothLanded ==
    [][\A k \in Keys :
           (chat[k] = "deleted" /\ gone[k] = "deleted") => ~Live(store', k)]_vars

\* ------------------------------------------------------------------ C38
\* The units of the messages a pass has sent: a summary, a collapsed group
\* together with the sample sticker sent right after it, and an item (all the
\* messages sent for one record on its own).
\* the messages j that belong to the sample of the group sent at g
SampleOf(h, g) ==
    {j \in (g + 1)..Len(h.emitted) :
        \A i \in (g + 1)..j : /\ h.emitted[i].kind = "single"
                              /\ h.emitted[i].src = <<h.emitted[g].src[1]>>}

Samples(h) ==
    UNION {SampleOf(h, g) : g \in {j \in 1..Len(h.emitted) : h.emitted[j].kind = "group"}}

\* the summaries and groups that list record k, and the messages of its item
ListedAt(h, k) ==
    {j \in 1..Len(h.emitted) : /\ h.emitted[j].kind \in {"summary", "group"}
                               /\ k \in Range(h.emitted[j].src)}

ItemOf(h, k) ==
    {j \in 1..Len(h.emitted) \ Samples(h) : /\ h.emitted[j].kind = "single"
                                            /\ h.emitted[j].src = <<k>>}

\* how many units stand for record k
UnitsOf(h, k) == Cardinality(ListedAt(h, k)) + (IF ItemOf(h, k) # {} THEN 1 ELSE 0)

\* the members message j adds to the sum: the number a summary or a group
\* shows, one for the first message of an item
MembersAt(h, j) ==
    IF h.emitted[j].kind \in {"summary", "group"} THEN h.emitted[j].count
    ELSE IF \E k \in BatchKeys : j \in ItemOf(h, k) /\ \A i \in ItemOf(h, k) : j <= i
    THEN 1 ELSE 0

RECURSIVE MembersFrom(_, _)
MembersFrom(h, j) ==
    IF j > Len(h.emitted) THEN 0 ELSE MembersAt(h, j) + MembersFrom(h, j + 1)

\* C38: when the pass is over every record of the resolved batch is in exactly
\* one unit (one item, one entry of one summary, or one member of one
\* collapsed group), and the members of all units add up to the length of the
\* batch.
C38_EveryRecordInOneUnit ==
    PassOver =>
        /\ \A x \in 1..Len(dh.acc) : UnitsOf(dh, dh.acc[x].k) = 1
        /\ MembersFrom(dh, 1) = Len(dh.acc)

\* a batch of five has been through the pass and was sent as a collapsed
\* group, a summary and an item
C38_Witness ==
    /\ PassOver
    /\ Len(dh.acc) = 5
    /\ \E g, t, i \in 1..Len(dh.emitted) :
        /\ dh.emitted[g].kind = "group"
        /\ dh.emitted[t].kind = "summary"
        /\ i \in ItemOf(dh, 5)

\* ------------------------------------------------------------------ C39
\* C39: the handler never renders an edit in a form that does not fit it: the
\* notification of every edit that passed the no-op check is built from the
\* media-only template, and then the text did not change, or from the caption
\* or the plain text template, and then the text did change; the else branch
\* is never a catch-all for an edit without a text change.
C39_NoFallbackRendering ==
    eh.emitted # <<>> =>
        LET form == eh.emitted[1].form
            text_changed == TextChanged(eh.stored, eh.new)
        IN  /\ ~EditNoop(eh.stored, eh.new)
            /\ form \in {"media", "caption", "text"}
            /\ form = "media" => ~text_changed
            /\ form = "caption" => text_changed /\ eh.new.content_type # "text"
            /\ form = "text" => text_changed /\ eh.new.content_type = "text"

\* an edit that changed the caption and the file of a photo has been rendered
\* from the caption template
C39_Witness ==
    /\ eh.pc = "apply"
    /\ eh.emitted # <<>>
    /\ eh.emitted[1].form = "caption"
    /\ MediaChanged(eh.stored, eh.new)

\* ------------------------------------------------------------------ C40
\* C40 (as stated): when the handler has applied an edit, the text of the
\* record in the cache and the text of the update it created for the table
\* are the text of the event (an absent text stays absent, it is not the
\* placeholder), and the direction of the cached record is the one it had.
C40_EditTextStored ==
    (eh.pc = "done" /\ eh.res = "applied") =>
        /\ CacheHas(cache, eh.k) =>
              /\ CacheLookup(cache, eh.k).message_text = eh.new.text
              /\ CacheLookup(cache, eh.k).is_outgoing = eh.stored.is_outgoing
        /\ \E t \in pending : /\ t.op = "update" /\ t.k = eh.k /\ t.n = events
                              /\ t.f.message_text = eh.new.text
                              /\ DOMAIN t.f = {"message_text", "content_type", "extra_data"}

====
